---- MODULE Spec2Model ----
(***************************************************************************)
(* Document structural model of the contract-review service: the section   *)
(* hierarchy reconstruction of app/services/document_service.py            *)
(* (extract_section_number, extract_caption, SectionTracker,               *)
(* process_table, parse_document).                                         *)
(*                                                                         *)
(* Text is a sequence of one-character strings, so that the regular        *)
(* expressions of the source are modelled by what they match.  An optional *)
(* value (Python None or a value) is a sequence of length 0 or 1.          *)
(* Python lists and dicts that can be aliased live in two heaps.           *)
(***************************************************************************)
EXTENDS Integers, Sequences, FiniteSets, TLC

(***************************************************************************)
(* Bounds of the model.                                                    *)
(***************************************************************************)
\* Number of blocks (paragraphs and tables) of a parsed document.
MaxBlocks == 4
\* Largest counter value drawn by the label-generation specification.
MaxCount == 30
\* Deepest list indent level drawn by the label-generation specification.
MaxLabelLevel == 4
\* Number of paragraphs of a document of the marker-format specification.
MaxFormatBlocks == 3
\* Number of paragraphs of a document of the section-reference specification.
MaxRefBlocks == 4
\* Number of blocks of a document of the malformed-numbering specification.
MaxMalformedBlocks == 4
\* Number of blocks of a document of the rebuild specification.
MaxRebuildBlocks == 2

\* Blocks of a document that is exported
MaxFinalBlocks == 2

\* Blocks of a document that is previewed
MaxPreviewBlocks == 1

\* Blocks of a document around the paragraph of the closing date
MaxScenarioBlocks == 3

\* Blocks of each of two documents handled at a time
MaxConcurrentBlocks == 2

(***************************************************************************)
(* Characters and strings.                                                 *)
(***************************************************************************)
None == <<>>

Some(v) == <<v>>

UpperSeq == <<"A", "B", "C", "D", "E", "F", "G", "H", "I", "J", "K", "L", "M",
              "N", "O", "P", "Q", "R", "S", "T", "U", "V", "W", "X", "Y", "Z">>

LowerSeq == <<"a", "b", "c", "d", "e", "f", "g", "h", "i", "j", "k", "l", "m",
              "n", "o", "p", "q", "r", "s", "t", "u", "v", "w", "x", "y", "z">>

DigitSeq == <<"0", "1", "2", "3", "4", "5", "6", "7", "8", "9">>

Upper == {UpperSeq[i] : i \in 1..26}

Lower == {LowerSeq[i] : i \in 1..26}

Letter == Upper \cup Lower

Digit == {DigitSeq[i] : i \in 1..10}

\* \s of the regular expressions (paragraph texts carry no line breaks here).
Space == {" ", "\t"}

\* [.\s:]
Sep == Space \cup {".", ":"}

\* [IVXLCDM] and [ivxlcdm]
RomanUpper == {"I", "V", "X", "L", "C", "D", "M"}

RomanLower == {"i", "v", "x", "l", "c", "d", "m"}

\* [\d\.A-Za-z\(\)]
SectionTail == Digit \cup Letter \cup {".", "(", ")"}

\* str.lower() on one character
LowerChar(c) ==
    IF c \in Upper THEN LowerSeq[CHOOSE i \in 1..26 : UpperSeq[i] = c] ELSE c

\* str.lower()
LowerStr(s) == [i \in 1..Len(s) |-> LowerChar(s[i])]

\* s[i-1:] in Python terms: the text from position i (1-based) to the end
From(s, i) == SubSeq(s, i, Len(s))

\* str.startswith
StartsWith(s, p) == Len(s) >= Len(p) /\ SubSeq(s, 1, Len(p)) = p

\* The position after the longest run of characters of class C that starts at
\* position i (i itself when the run is empty): a greedy C* of a regex.
RunEnd(s, i, C) ==
    CHOOSE j \in i..(Len(s) + 1) :
        /\ \A k \in i..(j - 1) : s[k] \in C
        /\ (j = Len(s) + 1 \/ s[j] \notin C)

\* Whether position i holds character c
At(s, i, c) == i >= 1 /\ i <= Len(s) /\ s[i] = c

\* Whether position i holds a character of class C
AtClass(s, i, C) == i >= 1 /\ i <= Len(s) /\ s[i] \in C

\* str.strip()
Strip(s) ==
    LET a == RunEnd(s, 1, Space)
        b == IF a > Len(s) THEN a - 1
             ELSE CHOOSE j \in a..Len(s) :
                      /\ s[j] \notin Space
                      /\ \A k \in (j + 1)..Len(s) : s[k] \in Space
    IN  SubSeq(s, a, b)

\* str.rstrip('.')
RStripDot(s) ==
    LET b == IF \A k \in 1..Len(s) : s[k] = "." THEN 0
             ELSE CHOOSE j \in 1..Len(s) :
                      /\ s[j] # "."
                      /\ \A k \in (j + 1)..Len(s) : s[k] = "."
    IN  SubSeq(s, 1, b)

\* str(n) for n >= 0
RECURSIVE Str(_)
Str(n) == IF n < 10 THEN <<DigitSeq[n + 1]>>
          ELSE Str(n \div 10) \o <<DigitSeq[(n % 10) + 1]>>

(***************************************************************************)
(* extract_section_number: the pattern cascade for textual markers.        *)
(* A pattern yields None or Some([num, rest]): groups 1 and 2 of the match.*)
(***************************************************************************)
Max(S) == CHOOSE x \in S : \A y \in S : y <= x

\* ^(KEYWORD\s+C+)[.\s:]+(.*)$ with re.IGNORECASE; kw is the keyword in lower
\* case.  The classes that follow each other are disjoint, so the greedy runs
\* are the only way to match.
PatKeyword(t, kw, C) ==
    LET k  == Len(kw)
        e1 == RunEnd(t, k + 1, Space)
        e2 == RunEnd(t, e1, C)
        e3 == RunEnd(t, e2, Sep)
    IN  IF /\ Len(t) >= k
           /\ LowerStr(SubSeq(t, 1, k)) = kw
           /\ e1 > k + 1
           /\ e2 > e1
           /\ e3 > e2
        THEN Some([num |-> SubSeq(t, 1, e2 - 1), rest |-> From(t, e3)])
        ELSE None

\* ^(Section\s+[\d]+\.[\d\.A-Za-z\(\)]+)[.\s:]+(.*)$ with re.IGNORECASE.
\* The tail class contains '.', so the greedy tail gives characters back
\* until a separator follows: the match ends the tail at the last separator
\* position of the run.
PatSectionDotted(t, kw) ==
    LET k  == Len(kw)
        e1 == RunEnd(t, k + 1, Space)
        e2 == RunEnd(t, e1, Digit)
        e3 == RunEnd(t, e2 + 1, SectionTail)
        K  == {j \in (e2 + 2)..e3 : AtClass(t, j, Sep)}
        e4 == RunEnd(t, Max(K), Sep)
    IN  IF /\ Len(t) >= k
           /\ LowerStr(SubSeq(t, 1, k)) = kw
           /\ e1 > k + 1
           /\ e2 > e1
           /\ At(t, e2, ".")
           /\ K # {}
        THEN Some([num |-> SubSeq(t, 1, Max(K) - 1), rest |-> From(t, e4)])
        ELSE None

\* ^(\d+\.\d+\.\d+\.?\s*)(.*)$
PatSubSub(t) ==
    LET d1 == RunEnd(t, 1, Digit)
        d2 == RunEnd(t, d1 + 1, Digit)
        d3 == RunEnd(t, d2 + 1, Digit)
        d4 == IF At(t, d3, ".") THEN d3 + 1 ELSE d3
        d5 == RunEnd(t, d4, Space)
    IN  IF /\ d1 > 1
           /\ At(t, d1, ".")
           /\ d2 > d1 + 1
           /\ At(t, d2, ".")
           /\ d3 > d2 + 1
        THEN Some([num |-> SubSeq(t, 1, d5 - 1), rest |-> From(t, d5)])
        ELSE None

\* ^(\d+\.\d+\.?\s*)(.*)$
PatSub(t) ==
    LET d1 == RunEnd(t, 1, Digit)
        d2 == RunEnd(t, d1 + 1, Digit)
        d4 == IF At(t, d2, ".") THEN d2 + 1 ELSE d2
        d5 == RunEnd(t, d4, Space)
    IN  IF /\ d1 > 1
           /\ At(t, d1, ".")
           /\ d2 > d1 + 1
        THEN Some([num |-> SubSeq(t, 1, d5 - 1), rest |-> From(t, d5)])
        ELSE None

\* ^(\d+\.)\s+(.*)$
PatTop(t) ==
    LET d1 == RunEnd(t, 1, Digit)
        e  == RunEnd(t, d1 + 1, Space)
    IN  IF /\ d1 > 1
           /\ At(t, d1, ".")
           /\ e > d1 + 1
        THEN Some([num |-> SubSeq(t, 1, d1), rest |-> From(t, e)])
        ELSE None

\* ^([A-Z]\.)\s+(.*)$ and ^([a-z]\.)\s+(.*)$, C the letter class
PatLetter(t, C) ==
    LET e == RunEnd(t, 3, Space)
    IN  IF /\ AtClass(t, 1, C)
           /\ At(t, 2, ".")
           /\ e > 3
        THEN Some([num |-> SubSeq(t, 1, 2), rest |-> From(t, e)])
        ELSE None

\* ^\(([A-Z])\)\s*(.*)$ and ^\(([a-z])\)\s*(.*)$: one character of C
PatParenOne(t, C) ==
    IF /\ At(t, 1, "(")
       /\ AtClass(t, 2, C)
       /\ At(t, 3, ")")
    THEN Some([num |-> SubSeq(t, 2, 2), rest |-> From(t, RunEnd(t, 4, Space))])
    ELSE None

\* ^\((\d+)\)\s*(.*)$, ^\(([ivxlcdm]+)\)\s*(.*)$, ^\(([IVXLCDM]+)\)\s*(.*)$
PatParenRun(t, C) ==
    LET e == RunEnd(t, 2, C)
    IN  IF /\ At(t, 1, "(")
           /\ e > 2
           /\ At(t, e, ")")
        THEN Some([num |-> SubSeq(t, 2, e - 1),
                   rest |-> From(t, RunEnd(t, e + 1, Space))])
        ELSE None

KwArticle == <<"a", "r", "t", "i", "c", "l", "e">>

KwSection == <<"s", "e", "c", "t", "i", "o", "n">>

\* The patterns list, in its order, applied to t
patterns(t) ==
    << [m |-> PatKeyword(t, KwArticle, RomanUpper \cup RomanLower), type |-> "article"],
       [m |-> PatKeyword(t, KwArticle, RomanUpper \cup RomanLower), type |-> "article"],
       [m |-> PatKeyword(t, KwArticle, Digit), type |-> "article"],
       [m |-> PatKeyword(t, KwArticle, Digit), type |-> "article"],
       [m |-> PatSectionDotted(t, KwSection), type |-> "section"],
       [m |-> PatKeyword(t, KwSection, Digit), type |-> "section"],
       [m |-> PatSectionDotted(t, KwSection), type |-> "section"],
       [m |-> PatKeyword(t, KwSection, Digit), type |-> "section"],
       [m |-> PatSubSub(t), type |-> "subsub"],
       [m |-> PatSub(t), type |-> "sub"],
       [m |-> PatTop(t), type |-> "top"],
       [m |-> PatLetter(t, Upper), type |-> "letter_upper"],
       [m |-> PatLetter(t, Lower), type |-> "letter_lower"],
       [m |-> PatParenOne(t, Upper), type |-> "paren_upper"],
       [m |-> PatParenOne(t, Lower), type |-> "paren_lower"],
       [m |-> PatParenRun(t, Digit), type |-> "paren_num"],
       [m |-> PatParenRun(t, RomanLower), type |-> "roman_lower"],
       [m |-> PatParenRun(t, RomanUpper), type |-> "roman_upper"] >>

ParenTypes == {"paren_upper", "paren_lower", "paren_num", "roman_lower", "roman_upper"}

\* The return value for the matching pattern p: group 1 stripped and, for the
\* parenthetical patterns, put back in parentheses; group 2 stripped
MatchResult(p) ==
    [section_num |-> Some(IF p.type \in ParenTypes
                             /\ ~StartsWith(Strip(p.m[1].num), <<"(">>)
                          THEN <<"(">> \o Strip(p.m[1].num) \o <<")">>
                          ELSE Strip(p.m[1].num)),
     remaining   |-> Strip(p.m[1].rest),
     num_type    |-> Some(p.type)]

\* The loop over the patterns ps applied to t: the first match wins
Cascade(ps, t) ==
    IF \A i \in 1..Len(ps) : ps[i].m = None
    THEN [section_num |-> None, remaining |-> t, num_type |-> None]
    ELSE MatchResult(ps[CHOOSE h \in 1..Len(ps) :
                            /\ ps[h].m # None
                            /\ \A g \in 1..(h - 1) : ps[g].m = None])

\* extract_section_number(text) -> (section_num, remaining, num_type)
extract_section_number(text) == Cascade(patterns(Strip(text)), Strip(text))

(***************************************************************************)
(* extract_caption                                                         *)
(***************************************************************************)
max_length == 60

\* Position of the first '.' of s, or 0
FirstDot(s) ==
    IF \E i \in 1..Len(s) : s[i] = "."
    THEN CHOOSE i \in 1..Len(s) : s[i] = "." /\ \A k \in 1..(i - 1) : s[k] # "."
    ELSE 0

Ellipsis == <<".", ".", ".">>

\* extract_caption after text_to_use is chosen; d is the first '.' of it
CaptionOf(use, d) ==
    IF d > 1 /\ AtClass(use, d + 1, Space) /\ AtClass(use, d + 2, Space)
    THEN Some(Strip(SubSeq(use, 1, d)))
    ELSE IF d > 1 /\ d <= max_length
    THEN Some(Strip(SubSeq(use, 1, d)))
    ELSE IF Len(use) > max_length
    THEN Some(Strip(SubSeq(use, 1, max_length)) \o Ellipsis)
    ELSE IF Strip(use) # <<>> THEN Some(Strip(use)) ELSE None

\* text_to_use = remaining if remaining else text
TextToUse(remaining, text) == IF remaining # <<>> THEN remaining ELSE text

CaptionFrom(use) == CaptionOf(use, FirstDot(use))

\* extract_caption(text): None or Some(caption)
extract_caption(text) ==
    CaptionFrom(TextToUse(extract_section_number(text).remaining, text))

(***************************************************************************)
(* SectionTracker.  self is the record                                     *)
(*   [hierarchy, counters, last_level, last_numId, lists, dicts]           *)
(* where hierarchy is a reference into the heap of list objects (lists),   *)
(* each list a sequence of references into the heap of node dicts (dicts). *)
(***************************************************************************)
RomanVal == <<1000, 900, 500, 400, 100, 90, 50, 40, 10, 9, 5, 4, 1>>

RomanSym == << <<"M">>, <<"C", "M">>, <<"D">>, <<"C", "D">>, <<"C">>,
               <<"X", "C">>, <<"L">>, <<"X", "L">>, <<"X">>, <<"I", "X">>,
               <<"V">>, <<"I", "V">>, <<"I">> >>

\* The loops of _to_roman from index i on
RECURSIVE to_roman_from(_, _)
to_roman_from(num, i) ==
    IF i > Len(RomanVal) THEN <<>>
    ELSE IF num >= RomanVal[i]
         THEN RomanSym[i] \o to_roman_from(num - RomanVal[i], i)
         ELSE to_roman_from(num, i + 1)

\* SectionTracker._to_roman
to_roman(num) == to_roman_from(num, 1)

\* dict.get(key, default)
Get(d, key, default) == IF key \in DOMAIN d THEN d[key] ELSE default

\* Mutant of generate_section_number: the letter range ends one short
\* (count < 26), so the 26th label leaves the alphabet
generate_section_number_ShortAlphabet(counters, level) ==
    IF level = 0 THEN Str(Get(counters, 0, 1)) \o <<".">>
    ELSE IF level = 1
    THEN LET count  == Get(counters, 1, 1)
             letter == IF count < 26 THEN <<UpperSeq[count]>>
                       ELSE <<"A">> \o Str(count - 26)
         IN  letter \o <<".">>
    ELSE IF level = 2
    THEN LET count == Get(counters, 2, 1)
         IN  <<"(">> \o LowerStr(to_roman(count)) \o <<")">>
    ELSE LET count == Get(counters, level, 1)
         IN  <<"(">> \o Str(count) \o <<")">>

\* SectionTracker._generate_section_number
generate_section_number(counters, level) ==
    IF level = 0 THEN Str(Get(counters, 0, 1)) \o <<".">>
    ELSE IF level = 1
    THEN LET count  == Get(counters, 1, 1)
             letter == IF count <= 26 THEN <<UpperSeq[count]>>
                       ELSE <<"A">> \o Str(count - 26)
         IN  letter \o <<".">>
    ELSE IF level = 2
    THEN LET count == Get(counters, 2, 1)
         IN  <<"(">> \o LowerStr(to_roman(count)) \o <<")">>
    ELSE LET count == Get(counters, level, 1)
         IN  <<"(">> \o Str(count) \o <<")">>

\* Mutant of AdvanceCounters: the counters of deeper levels are kept
AdvanceCounters_KeepDeeper(counters, last_numId, numbering_level, numId) ==
    LET c1 == IF numId # last_numId THEN <<>> ELSE counters
        c3 == [l \in DOMAIN c1 \cup {numbering_level} |->
                  IF l = numbering_level THEN Get(c1, numbering_level, 0) + 1
                  ELSE c1[l]]
    IN  [counters |-> c3, last_numId |-> numId]

\* Mutant of AdvanceCounters: the level's own counter is removed with the
\* deeper ones (l >= numbering_level)
AdvanceCounters_DropOwn(counters, last_numId, numbering_level, numId) ==
    LET c1 == IF numId # last_numId THEN <<>> ELSE counters
        c2 == [l \in {k \in DOMAIN c1 : k < numbering_level} |-> c1[l]]
        c3 == [l \in DOMAIN c2 \cup {numbering_level} |->
                  IF l = numbering_level THEN Get(c2, numbering_level, 0) + 1
                  ELSE c2[l]]
    IN  [counters |-> c3, last_numId |-> numId]

\* Mutant of AdvanceCounters: a new list id does not clear the counters
AdvanceCounters_NoReset(counters, last_numId, numbering_level, numId) ==
    LET c2 == [l \in {k \in DOMAIN counters : k <= numbering_level} |-> counters[l]]
        c3 == [l \in DOMAIN c2 \cup {numbering_level} |->
                  IF l = numbering_level THEN Get(c2, numbering_level, 0) + 1
                  ELSE c2[l]]
    IN  [counters |-> c3, last_numId |-> numId]

\* Mutant of AdvanceCounters: the counters of every other level are removed
\* (l # numbering_level)
AdvanceCounters_DropOthers(counters, last_numId, numbering_level, numId) ==
    LET c1 == IF numId # last_numId THEN <<>> ELSE counters
        c2 == [l \in {k \in DOMAIN c1 : k = numbering_level} |-> c1[l]]
        c3 == [l \in DOMAIN c2 \cup {numbering_level} |->
                  IF l = numbering_level THEN Get(c2, numbering_level, 0) + 1
                  ELSE c2[l]]
    IN  [counters |-> c3, last_numId |-> numId]

\* update, the list-style branch: the counters and last_numId after the
\* reset on a new list id, the removal of deeper levels and the increment
AdvanceCounters(counters, last_numId, numbering_level, numId) ==
    LET c1 == IF numId # last_numId THEN <<>> ELSE counters
        c2 == [l \in {k \in DOMAIN c1 : k <= numbering_level} |-> c1[l]]
        c3 == [l \in DOMAIN c2 \cup {numbering_level} |->
                  IF l = numbering_level THEN Get(c2, numbering_level, 0) + 1
                  ELSE c2[l]]
    IN  [counters |-> c3, last_numId |-> numId]

KwForms == { <<"A", "r", "t", "i", "c", "l", "e">>, <<"A", "R", "T", "I", "C", "L", "E">>,
             <<"S", "e", "c", "t", "i", "o", "n">>, <<"S", "E", "C", "T", "I", "O", "N">> }

\* Mutant of InferLevel: the fallback tests last_level > 0, so a marker after
\* a level-0 node stays at level 0
InferLevel_FallbackOffByOne(section_num, last_level) ==
    LET s  == section_num
        d1 == RunEnd(s, 1, Digit)
        d2 == RunEnd(s, d1 + 1, Digit)
        r  == RunEnd(s, 2, {"i", "v", "x", "I", "V", "X"})
    IN  IF \E kw \in KwForms : StartsWith(s, kw) THEN 0
        ELSE IF /\ d1 > 1 /\ At(s, d1, ".") /\ d2 > d1 + 1
                /\ At(s, d2, ".") /\ AtClass(s, d2 + 1, Digit) THEN 2
        ELSE IF d1 > 1 /\ At(s, d1, ".") /\ d2 > d1 + 1 THEN 1
        ELSE IF d1 > 1 /\ At(s, d1, ".") THEN 0
        ELSE IF At(s, 1, "(") /\ r > 2 /\ At(s, r, ")") THEN 2
        ELSE IF At(s, 1, "(") /\ AtClass(s, 2, Letter) /\ At(s, 3, ")") THEN 2
        ELSE IF last_level > 0 THEN last_level + 1 ELSE 0

\* update, the level inferred from the format of a textual marker
InferLevel(section_num, last_level) ==
    LET s  == section_num
        d1 == RunEnd(s, 1, Digit)
        d2 == RunEnd(s, d1 + 1, Digit)
        r  == RunEnd(s, 2, {"i", "v", "x", "I", "V", "X"})
    IN  IF \E kw \in KwForms : StartsWith(s, kw) THEN 0
        ELSE IF /\ d1 > 1 /\ At(s, d1, ".") /\ d2 > d1 + 1
                /\ At(s, d2, ".") /\ AtClass(s, d2 + 1, Digit) THEN 2
        ELSE IF d1 > 1 /\ At(s, d1, ".") /\ d2 > d1 + 1 THEN 1
        ELSE IF d1 > 1 /\ At(s, d1, ".") THEN 0
        ELSE IF At(s, 1, "(") /\ r > 2 /\ At(s, r, ")") THEN 2
        ELSE IF At(s, 1, "(") /\ AtClass(s, 2, Letter) /\ At(s, 3, ")") THEN 2
        ELSE IF last_level >= 0 THEN last_level + 1 ELSE 0

Min(a, b) == IF a <= b THEN a ELSE b

\* Mutant of SetHierarchy: when the hierarchy already has a node in the slot
\* of the level, that node dict is overwritten in place instead of a new one
\* being appended
SetHierarchy_InPlace(self, level, section_num, caption) ==
    LET old  == self.lists[self.hierarchy]
        node == [level |-> level, number |-> section_num, caption |-> caption]
        nref == Len(self.dicts) + 1
    IN  IF Len(old) > level
        THEN [self EXCEPT !.dicts[old[level + 1]] = node,
                          !.lists = Append(self.lists, SubSeq(old, 1, level + 1)),
                          !.hierarchy = Len(self.lists) + 1,
                          !.last_level = level]
        ELSE [self EXCEPT !.dicts = Append(self.dicts, node),
                          !.lists = Append(self.lists, Append(old, nref)),
                          !.hierarchy = Len(self.lists) + 1,
                          !.last_level = level]

\* Mutant of SetHierarchy: the hierarchy is not cut before the node is
\* appended
SetHierarchy_NotCut(self, level, section_num, caption) ==
    LET old  == self.lists[self.hierarchy]
        node == [level |-> level, number |-> section_num, caption |-> caption]
        nref == Len(self.dicts) + 1
    IN  [self EXCEPT !.dicts = Append(self.dicts, node),
                     !.lists = Append(self.lists, Append(old, nref)),
                     !.hierarchy = Len(self.lists) + 1,
                     !.last_level = level]

\* update, the end: self.hierarchy = self.hierarchy[:level] makes a new list
\* object, and the new node dict is appended to it
SetHierarchy(self, level, section_num, caption) ==
    LET old  == self.lists[self.hierarchy]
        node == [level |-> level, number |-> section_num, caption |-> caption]
        nref == Len(self.dicts) + 1
        new  == Append(SubSeq(old, 1, Min(level, Len(old))), nref)
    IN  [self EXCEPT !.dicts = Append(self.dicts, node),
                     !.lists = Append(self.lists, new),
                     !.hierarchy = Len(self.lists) + 1,
                     !.last_level = level]

\* update, the list-style branch once the counters are advanced
AutoNumber(self, adv, level, caption) ==
    SetHierarchy([self EXCEPT !.counters = adv.counters,
                              !.last_numId = adv.last_numId],
                 level, generate_section_number(adv.counters, level), caption)

\* Mutant of update: the list style wins over a textual marker (the first
\* branch no longer requires section_num to be None)
update_ListStyleWins(self, numbering_level, section_num, caption, numId) ==
    IF numbering_level # None
    THEN AutoNumber(self,
                    AdvanceCounters(self.counters, self.last_numId,
                                    numbering_level[1], numId),
                    numbering_level[1], caption)
    ELSE IF section_num # None
    THEN SetHierarchy(self, InferLevel(section_num[1], self.last_level),
                      section_num[1], caption)
    ELSE self

\* Mutant of update: the level of a paragraph with a textual marker is
\* inferred from the marker's format even when it has a list-style level
update_MarkerFormatWins(self, numbering_level, section_num, caption, numId) ==
    IF numbering_level # None /\ section_num = None
    THEN AutoNumber(self,
                    AdvanceCounters(self.counters, self.last_numId,
                                    numbering_level[1], numId),
                    numbering_level[1], caption)
    ELSE IF section_num # None
    THEN SetHierarchy(self, InferLevel(section_num[1], self.last_level),
                      section_num[1], caption)
    ELSE self

\* SectionTracker.update(numbering_level, section_num, caption, numId)
update(self, numbering_level, section_num, caption, numId) ==
    IF numbering_level # None /\ section_num = None
    THEN AutoNumber(self,
                    AdvanceCounters(self.counters, self.last_numId,
                                    numbering_level[1], numId),
                    numbering_level[1], caption)
    ELSE IF section_num # None
    THEN SetHierarchy(self,
                      IF numbering_level # None THEN numbering_level[1]
                      ELSE InferLevel(section_num[1], self.last_level),
                      section_num[1], caption)
    ELSE self

\* The string concatenation "".join(parts)
RECURSIVE Join(_)
Join(parts) == IF parts = <<>> THEN <<>> ELSE Head(parts) \o Join(Tail(parts))

\* Mutant of get_section_ref: the labels are joined as they are
get_section_ref_KeepDots(self) ==
    LET h == self.lists[self.hierarchy]
    IN  IF h = <<>> THEN None
        ELSE Some(Join([i \in 1..Len(h) |-> self.dicts[h[i]].number]))

\* SectionTracker.get_section_ref
get_section_ref(self) ==
    LET h == self.lists[self.hierarchy]
    IN  IF h = <<>> THEN None
        ELSE Some(Join([i \in 1..Len(h) |-> RStripDot(self.dicts[h[i]].number)]))

\* SectionTracker.get_current_hierarchy: list(self.hierarchy), a new list
\* object holding the same node references
get_current_hierarchy(self) == self.lists[self.hierarchy]

(***************************************************************************)
(* The blocks of a document.  A paragraph of the container is              *)
(*   [style, numPr, children] with style the style name, numPr None or     *)
(*   Some([ilvl, numId]), the w:val attributes of w:ilvl and w:numId, and  *)
(*   children the elements of the paragraph that carry text: runs (w:r)    *)
(*   and, in a document with revision markup, w:ins and w:del elements     *)
(*   that wrap one run each.                                               *)
(* A table is [rows], a sequence of rows, a row a sequence of cells, a     *)
(* cell a sequence of paragraphs.                                          *)
(***************************************************************************)
\* The formatting of a run: bold, italic and underline are None (not set),
\* Some(TRUE) or Some(FALSE); the font name and size are None or Some(value)
Format(bold, italic, underline, font_name, font_size) ==
    [bold |-> bold, italic |-> italic, underline |-> underline,
     font_name |-> font_name, font_size |-> font_size]

F_plain == Format(None, None, None, None, None)

\* A run: a w:r element, outside any revision markup
Run(text, fmt) == [kind |-> "r", text |-> text, fmt |-> fmt, mark |-> None]

\* paragraph.runs: the w:r elements that are children of the paragraph
Runs(paragraph) == SelectSeq(paragraph.children, LAMBDA e : e.kind = "r")

\* paragraph.text: the text of the runs, one after another
Text(paragraph) ==
    Join([i \in 1..Len(Runs(paragraph)) |-> Runs(paragraph)[i].text])

T_body == <<"B", "o", "d", "y">>

T_top == <<"2", ".", " ", "T", "e", "r", "m">>

T_seven == <<"7", ".", " ", "R", "e", "n", "t">>

T_sub == <<"1", ".", "2", " ", "F", "e", "e", "s">>

T_subsub == <<"1", ".", "2", ".", "3", " ", "T", "a", "x">>

T_upper == <<"A", ".", " ", "S", "c", "o", "p", "e">>

T_lower == <<"a", ".", " ", "i", "t", "e", "m">>

T_roman == <<"(", "i", "i", ")", " ", "r", "e", "n", "t">>

T_paren_lower == <<"(", "a", ")", " ", "r", "e", "n", "t">>

T_paren_num == <<"(", "1", ")", " ", "r", "e", "n", "t">>

S_normal == <<"N", "o", "r", "m", "a", "l">>

S_heading == <<"H", "e", "a", "d", "i", "n", "g", " ", "1">>

S_list == <<"L", "i", "s", "t", " ", "P", "a", "r", "a", "g", "r", "a", "p", "h">>

\* isinstance(block, Paragraph) and isinstance(block, Table)
IsParagraph(block) == "children" \in DOMAIN block

IsTable(block) == "rows" \in DOMAIN block

Table(rows) == [rows |-> rows]

\* A paragraph whose text is in one run without formatting
Para(text, style, numPr) ==
    [style |-> style, numPr |-> numPr, children |-> <<Run(text, F_plain)>>]

NumPr(ilvl, numId) == Some([ilvl |-> Str(ilvl), numId |-> Str(numId)])

\* Paragraphs with list-style numbering only
AutoParagraphs ==
    { Para(T_body, S_list, NumPr(0, 1)),
      Para(T_body, S_list, NumPr(1, 1)),
      Para(T_body, S_list, NumPr(1, 2)) }

\* Paragraphs with a textual marker, one of them in a numbered list as well
MarkerParagraphs ==
    { Para(T_top, S_normal, None),
      Para(T_upper, S_normal, None),
      Para(T_paren_num, S_normal, None),
      Para(T_sub, S_list, NumPr(0, 2)) }

\* Paragraphs with no numbering signal: body text, and a heading style alone
PlainParagraphs ==
    { Para(T_body, S_normal, None),
      Para(T_body, S_heading, None) }

SampleParagraphs == AutoParagraphs \cup MarkerParagraphs \cup PlainParagraphs

\* Paragraphs with textual markers of every level format, without list style
FormatParagraphs ==
    { Para(T_top, S_normal, None),
      Para(T_sub, S_normal, None),
      Para(T_subsub, S_normal, None),
      Para(T_upper, S_normal, None),
      Para(T_lower, S_normal, None),
      Para(T_paren_lower, S_normal, None),
      Para(T_paren_num, S_normal, None),
      Para(T_roman, S_normal, None) }

\* Paragraphs with list-style numbering only, one per indent level
LabelParagraphs == {Para(T_body, S_list, NumPr(l, 1)) : l \in 0..MaxLabelLevel}

\* Paragraphs that number level 0 by list style (two lists) or by a textual
\* marker, a list item of level 1 and body text
RefParagraphs ==
    { Para(T_body, S_list, NumPr(0, 1)),
      Para(T_body, S_list, NumPr(0, 2)),
      Para(T_body, S_list, NumPr(1, 1)),
      Para(T_top, S_normal, None),
      Para(T_seven, S_normal, None),
      Para(T_body, S_normal, None) }

\* 'Section 5.3', two blanks, 'Closing Date.', two blanks, body text
T_closing ==
    <<"S", "e", "c", "t", "i", "o", "n", " ", "5", ".", "3", " ", " ",
      "C", "l", "o", "s", "i", "n", "g", " ", "D", "a", "t", "e", ".", " ", " ",
      "B", "o", "d", "y">>

\* A keyword marker in lower case
T_section_lower ==
    <<"s", "e", "c", "t", "i", "o", "n", " ", "2", " ", "F", "e", "e", "s">>

\* The paragraph of the closing date, a keyword marker in lower case, markers
\* of the first two levels, a list item and body text
ScenarioParagraphs ==
    { Para(T_closing, S_normal, None),
      Para(T_section_lower, S_normal, None),
      Para(T_top, S_normal, None),
      Para(T_sub, S_normal, None),
      Para(T_body, S_list, NumPr(0, 1)),
      Para(T_body, S_normal, None) }

\* A table of one row whose first cell holds two paragraphs, and a table of
\* two rows of two cells
T_new == <<"N", "e", "w">>

\* The body text followed by a blank
T_body_sp == <<"B", "o", "d", "y", " ">>

F_bold ==
    Format(Some(TRUE), Some(FALSE), None, Some(<<"A", "r", "i", "a", "l">>), Some(24))

\* The paragraph '2. Term' in two runs, the first one formatted
P_two_runs ==
    [style |-> S_normal, numPr |-> None,
     children |-> <<Run(<<"2", ".", " ">>, F_bold), Run(<<"T", "e", "r", "m">>, F_plain)>>]

\* The top-level paragraphs of the documents that are rebuilt: body text
\* with a blank at its end, and the paragraph in two runs (the table of these
\* documents holds body text without a blank)
RebuildParagraphs ==
    { Para(T_body_sp, S_normal, None),
      P_two_runs }

\* A table of two rows of two cells
Table_2x2 ==
    Table(<< << <<Para(T_body, S_normal, None)>>, <<Para(T_top, S_normal, None)>> >>,
             << <<Para(T_body, S_list, NumPr(0, 1))>>,
                <<Para(T_upper, S_normal, None)>> >> >>)

RebuildTables == {Table_2x2}

Revision(accepted, original, revised) ==
    [accepted |-> accepted, original |-> original, revised |-> revised]

\* Revisions of the body text: accepted with a new text, not accepted,
\* accepted with the same text, accepted with the text and a blank
RevisionValues ==
    { Revision(TRUE, T_body, T_new),
      Revision(FALSE, T_body, T_new),
      Revision(TRUE, T_body, T_body),
      Revision(TRUE, T_body, T_body_sp) }

\* The ids that revisions are made for: the first two paragraphs, and an id
\* that no document has
P_1 == <<"p", "_", "1">>

P_2 == <<"p", "_", "2">>

UnknownId == <<"p", "_", "9", "9">>

RevisionIds == {P_1, P_2, UnknownId}

\* The revision sets: at most two revisions; any revision for the first
\* paragraph, one with a new text, accepted or not, for the second, an
\* accepted one with a new text for the unknown id
RevisionSets ==
    UNION { { revs \in [ids -> RevisionValues] :
                /\ UnknownId \in ids => revs[UnknownId] = Revision(TRUE, T_body, T_new)
                /\ P_2 \in ids => revs[P_2].revised = T_new } :
            ids \in {K \in SUBSET RevisionIds : Cardinality(K) <= 2} }

AuthorName == <<"R", "e", "v", "i", "e", "w", "e", "r">>

\* A list paragraph whose indent level is not a number
P_malformed ==
    [style |-> S_list,
     numPr |-> Some([ilvl |-> <<"x">>, numId |-> Str(1)]),
     children |-> <<Run(T_body, F_plain)>>]

\* Well-formed paragraphs and the malformed one
MalformedParagraphs ==
    { Para(T_body, S_normal, None),
      Para(T_body, S_list, NumPr(0, 1)),
      Para(T_top, S_normal, None),
      P_malformed }

\* A table with the malformed paragraph in its second cell
MalformedTables ==
    { Table(<< << <<Para(T_body, S_normal, None)>>, <<P_malformed>> >> >>) }

SampleTables ==
    { Table(<< << <<Para(T_body, S_normal, None),
                   Para(T_paren_lower, S_list, NumPr(1, 1))>>,
                 <<Para(T_top, S_normal, None)>> >> >>),
      Table_2x2 }

(***************************************************************************)
(* get_paragraph_style_info                                                *)
(***************************************************************************)
\* int(s) of a string of decimal digits
RECURSIVE ParseInt(_)
ParseInt(s) ==
    IF Len(s) = 0 THEN 0
    ELSE 10 * ParseInt(SubSeq(s, 1, Len(s) - 1))
         + (CHOOSE d \in 0..9 : DigitSeq[d + 1] = s[Len(s)])

\* Whether int(s) returns: s is a string of decimal digits.  (int also
\* takes a sign, surrounding blanks and underscores between digits; the
\* documents drawn here hold digit strings and a string with no digit.)
IntParses(s) == s # <<>> /\ \A k \in 1..Len(s) : s[k] \in Digit

\* get_paragraph_style_info raises ValueError: the w:val of w:ilvl is not an
\* integer
Raises(paragraph) ==
    paragraph.numPr # None /\ ~IntParses(paragraph.numPr[1].ilvl)

KwHeading == <<"h", "e", "a", "d", "i", "n", "g">>

get_paragraph_style_info(paragraph) ==
    [style      |-> paragraph.style,
     numbering  |-> IF paragraph.numPr = None THEN None
                    ELSE Some([level |-> ParseInt(paragraph.numPr[1].ilvl),
                               numId |-> paragraph.numPr[1].numId]),
     is_heading |-> StartsWith(LowerStr(paragraph.style), KwHeading)]

(***************************************************************************)
(* State of one parse_document call.                                       *)
(***************************************************************************)
VARIABLES
    hierarchy,    \* section_tracker.hierarchy: a reference into lists
    counters,     \* section_tracker.counters: level -> count
    last_level,   \* section_tracker.last_level
    last_numId,   \* section_tracker.last_numId: None or Some(id)
    lists,        \* heap of list objects: sequences of references into dicts
    dicts,        \* heap of node dicts {level, number, caption}
    para_id,      \* the paragraph id counter
    content,      \* result["content"]
    sections,     \* result["sections"]
    exhibits,     \* result["exhibits"]
    log,          \* history: per block, whether update was called and the
                  \* tracker's scalar state after the block
    files,        \* the file system: path -> file
    raised,       \* the exception that ended the last call: None or Some(name)
    revisions,    \* the session's revisions: paragraph id -> revision
    rebuilt,      \* history: the last rebuild call and its result, or None
    final,        \* the last generate_final_documents call: None or Some(..)
    html_cache,   \* the cache files of the preview: path -> None or Some(html)
    rendered,     \* history: the last render_document_html call, or None
    runs,         \* two invocations at a time: their tracker objects, their
                  \* local variables and the files they write
    session,      \* the session beside its revisions: the order of the keys
                  \* of session['revisions'] and session['status']
    calls         \* history: the calls of the revision routes, with the
                  \* status of their responses

vars == <<hierarchy, counters, last_level, last_numId, lists, dicts,
          para_id, content, sections, exhibits, log,
          files, raised, revisions, rebuilt, final, html_cache, rendered, runs,
          session, calls>>

\* What parsing and the rebuild calls leave alone
beside == <<final, html_cache, rendered, runs, session, calls>>

\* The paths of the uploaded container and of the rebuilt ones
OriginalPath == "original"

OutputPaths == {"out1", "out2"}

Paths == {OriginalPath} \cup OutputPaths

\* A file that holds a container with the given blocks, no file, and a file
\* that is not a readable container
File(blocks) == [state |-> "ok", blocks |-> blocks]

NoFile == [state |-> "absent", blocks |-> <<>>]

Corrupt == [state |-> "corrupt", blocks |-> <<>>]

\* The invocations that run at a time
Invocations == {1, 2}

\* SectionTracker.__init__, with the heaps of the object
NewTracker ==
    [hierarchy |-> 1, counters |-> <<>>, last_level |-> -1, last_numId |-> None,
     lists |-> << <<>> >>, dicts |-> <<>>]

\* The output path of an invocation: it is made of the invocation's session
OutputPathOf(i) == <<"out", i>>

\* Two invocations before their first step: each has the blocks it has read,
\* its para_id and result["content"], the step it is at (pc), the container
\* it has opened (doc) and what it has returned; the SectionTracker objects
\* and the files at the output paths are beside them
InitRuns ==
    [tracker |-> [t \in Invocations |-> NewTracker],
     inv     |-> [i \in Invocations |->
                    [blocks |-> <<>>, para_id |-> 0, content |-> <<>>,
                     pc |-> "parse", doc |-> <<>>, returned |-> None]],
     fs      |-> [path \in {OutputPathOf(i) : i \in Invocations} |-> NoFile]]

\* The session before its first revision: no key in session['revisions']
NewSession == [order |-> <<>>, status |-> "analyzed"]

\* Before any call: the container at the original path, of which no block
\* has been read yet, and no revision
InitSession ==
    /\ files = [p \in Paths |-> IF p = OriginalPath THEN File(<<>>) ELSE NoFile]
    /\ raised = None
    /\ revisions = <<>>
    /\ rebuilt = None
    /\ final = None
    /\ html_cache = [p \in Paths |-> None]
    /\ rendered = None
    /\ runs = InitRuns
    /\ session = NewSession
    /\ calls = <<>>

\* iter_block_items yields the next block of the container
ReadBlock(block) ==
    files' = [files EXCEPT ![OriginalPath] = File(Append(@.blocks, block))]

Read(block) == ReadBlock(block) /\ UNCHANGED <<raised, revisions, rebuilt, beside>>

\* The tracker object with the heaps it lives in
Self ==
    [hierarchy |-> hierarchy, counters |-> counters, last_level |-> last_level,
     last_numId |-> last_numId, lists |-> lists, dicts |-> dicts]

\* f"{prefix}_{n}"
Id(prefix, n) == prefix \o <<"_">> \o Str(n)

\* SectionTracker.__init__ and the start of parse_document
Init ==
    /\ lists = << <<>> >>
    /\ dicts = <<>>
    /\ hierarchy = 1
    /\ counters = <<>>
    /\ last_level = -1
    /\ last_numId = None
    /\ para_id = 0
    /\ content = <<>>
    /\ sections = <<>>
    /\ exhibits = <<>>
    /\ log = <<>>
    /\ InitSession

\* Mutant of OffersToTracker: every paragraph is offered to the tracker
OffersToTracker_Always(numbering_level, section_num, is_heading) == TRUE

\* The condition under which parse_document offers a paragraph to the tracker
OffersToTracker(numbering_level, section_num, is_heading) ==
    \/ numbering_level # None
    \/ (section_num # None /\ section_num[1] # <<>>)
    \/ is_heading

KwExhibit == <<"e", "x", "h", "i", "b", "i", "t">>

\* re.match(r'^EXHIBIT\s+[A-Z0-9]', para_text, re.IGNORECASE)
IsExhibit(t) ==
    /\ StartsWith(LowerStr(t), KwExhibit)
    /\ RunEnd(t, 8, Space) > 8
    /\ AtClass(t, RunEnd(t, 8, Space), Letter \cup Digit)

LogEntry(called, self) ==
    [called |-> called, counters |-> self.counters,
     last_level |-> self.last_level, last_numId |-> self.last_numId]

\* The paragraphs of a table in row-major order, each with its row and cell
FlattenCells(row, r) ==
    [c \in 1..Len(row) |->
        [k \in 1..Len(row[c]) |-> [row |-> r, cell |-> c, para |-> row[c][k]]]]

RECURSIVE Concat(_)
Concat(ss) == IF ss = <<>> THEN <<>> ELSE Head(ss) \o Concat(Tail(ss))

CellParagraphs(table) ==
    Concat([r \in 1..Len(table.rows) |-> Concat(FlattenCells(table.rows[r], r))])

\* What parse_document and process_table compute from one paragraph alone:
\* the stripped text, the style info, the textual marker and the caption
Analyse(paragraph) ==
    LET para_text == Strip(Text(paragraph))
    IN  [para_text  |-> para_text,
         style_info |-> get_paragraph_style_info(paragraph),
         ex         |-> extract_section_number(para_text),
         caption    |-> extract_caption(para_text)]

\* Analyse over the sample paragraphs, computed once
Analysed ==
    [b \in SampleParagraphs \cup FormatParagraphs \cup LabelParagraphs
           \cup RefParagraphs \cup RebuildParagraphs \cup ScenarioParagraphs
           \cup UNION {{CellParagraphs(t)[k].para : k \in 1..Len(CellParagraphs(t))} :
                        t \in SampleTables}
        |-> Analyse(b)]

\* numbering_level and numId as parse_document reads them from style_info
NumberingLevel(style_info) ==
    IF style_info.numbering # None THEN Some(style_info.numbering[1].level) ELSE None

NumId(style_info) ==
    IF style_info.numbering # None THEN Some(style_info.numbering[1].numId) ELSE None

\* Whether the paragraph with analysis a is offered to the tracker
Called(a) ==
    OffersToTracker(NumberingLevel(a.style_info), a.ex.section_num,
                    a.style_info.is_heading)

\* The tracker after the paragraph with analysis a
Tracked(self, a) ==
    IF Called(a)
    THEN update(self, NumberingLevel(a.style_info), a.ex.section_num, a.caption,
                NumId(a.style_info))
    ELSE self

\* Whether the paragraph goes into result["sections"]
IsSection(a) ==
    \/ a.style_info.is_heading
    \/ /\ a.ex.section_num # None /\ a.ex.section_num[1] # <<>>
       /\ a.ex.num_type[1] \in {"article", "section", "top"}

\* caption or para_text[:50]
Title(a) ==
    IF a.caption # None /\ a.caption[1] # <<>> THEN a.caption[1]
    ELSE SubSeq(a.para_text, 1, Min(50, Len(a.para_text)))

\* para_data of the paragraph with analysis a and number id; self1 is the
\* tracker after the update
ParaData(id, a, self1) ==
    [type |-> "paragraph",
     id |-> Id(<<"p">>, id),
     text |-> a.para_text,
     section_number |-> a.ex.section_num,
     section_ref |-> get_section_ref(self1),
     caption |-> a.caption,
     style_info |-> a.style_info,
     section_hierarchy |-> Len(self1.lists) + 1]

\* The end of the loop body: para_data, the sections and exhibits entries.
\* self1 is the tracker after the update, cur its hierarchy list; para_data
\* and the sections entry each get a new list object from
\* get_current_hierarchy.
Stamp(id, a, self1, cur) ==
    /\ para_id' = id
    /\ hierarchy' = self1.hierarchy
    /\ counters' = self1.counters
    /\ last_level' = self1.last_level
    /\ last_numId' = self1.last_numId
    /\ dicts' = self1.dicts
    /\ lists' = IF IsSection(a) THEN self1.lists \o <<cur, cur>>
                ELSE Append(self1.lists, cur)
    /\ content' = Append(content, ParaData(id, a, self1))
    /\ sections' = IF IsSection(a)
                   THEN Append(sections,
                            [id |-> Id(<<"s", "e", "c">>, id),
                             number |-> a.ex.section_num,
                             title |-> Title(a),
                             para_id |-> Id(<<"p">>, id),
                             hierarchy |-> Len(self1.lists) + 2])
                   ELSE sections
    /\ exhibits' = IF IsExhibit(a.para_text)
                   THEN Append(exhibits,
                            [id |-> Id(<<"e", "x">>, id),
                             title |-> a.para_text,
                             start_para_id |-> Id(<<"p">>, id)])
                   ELSE exhibits
    /\ log' = Append(log, LogEntry(Called(a), self1))

StampTracked(id, a, self1) == Stamp(id, a, self1, get_current_hierarchy(self1))

ParseAnalysed(a) == StampTracked(para_id + 1, a, Tracked(Self, a))

\* parse_document, the loop body for a paragraph block
ParseParagraph(block) ==
    /\ raised = None
    /\ IF Raises(block)
       THEN /\ ReadBlock(block)
            /\ para_id' = para_id + 1
            /\ raised' = Some("ValueError")
            /\ UNCHANGED <<hierarchy, counters, last_level, last_numId, lists,
                           dicts, content, sections, exhibits, log, revisions,
                           rebuilt, beside>>
       ELSE ParseAnalysed(Analysed[block]) /\ Read(block)

\* The entry of the k-th cell paragraph of a table: its copy of the hierarchy
\* is the k-th list object made after the table's own (tref)
CellEntry(a, id, ref) ==
    [id |-> Id(<<"p">>, id),
     text |-> a.para_text,
     section_number |-> a.ex.section_num,
     caption |-> a.caption,
     style_info |-> a.style_info,
     section_hierarchy |-> ref]

\* f"cell_{row_idx}_{cell_idx}"
CellId(r, c) == <<"c", "e", "l", "l", "_">> \o Str(r - 1) \o <<"_">> \o Str(c - 1)

\* The positions in flat of the paragraphs of cell (r, c), in order
CellSlots(flat, r, c) ==
    LET ks == {k \in 1..Len(flat) : flat[k].row = r /\ flat[k].cell = c}
    IN  [i \in 1..Cardinality(ks) |->
            CHOOSE k \in ks : Cardinality({j \in ks : j < k}) = i - 1]

TableRows(table, flat, start_id, tref) ==
    [r \in 1..Len(table.rows) |->
        [c \in 1..Len(table.rows[r]) |->
            [cell_id |-> CellId(r, c),
             paragraphs |->
                [i \in 1..Len(CellSlots(flat, r, c)) |->
                    CellEntry(Analysed[flat[CellSlots(flat, r, c)[i]].para],
                              start_id + CellSlots(flat, r, c)[i],
                              tref + CellSlots(flat, r, c)[i])]]]]

\* Mutant of ProcessFlat: the cell paragraphs are tracked on their own, from
\* an empty hierarchy
ProcessFlat_CellsDetached(table, flat, start_id, lists0, cur) ==
    [table_data |->
        [type |-> "table",
         id |-> Id(<<"t", "b", "l">>, start_id),
         rows |-> TableRows(table, flat, start_id, Len(lists0) + 1),
         section_hierarchy |-> Len(lists0) + 1],
     para_id |-> start_id + Len(flat),
     lists |-> lists0 \o <<cur>> \o [k \in 1..Len(flat) |-> <<>>]]

\* Mutant of ProcessFlat: the table numbers its paragraphs in an id space of
\* its own and hands the counter back as it got it
ProcessFlat_OwnIdSpace(table, flat, start_id, lists0, cur) ==
    [table_data |->
        [type |-> "table",
         id |-> Id(<<"t", "b", "l">>, start_id),
         rows |-> TableRows(table, flat, start_id, Len(lists0) + 1),
         section_hierarchy |-> Len(lists0) + 1],
     para_id |-> start_id,
     lists |-> lists0 \o [k \in 1..(Len(flat) + 1) |-> cur]]

ProcessFlat(table, flat, start_id, lists0, cur) ==
    [table_data |->
        [type |-> "table",
         id |-> Id(<<"t", "b", "l">>, start_id),
         rows |-> TableRows(table, flat, start_id, Len(lists0) + 1),
         section_hierarchy |-> Len(lists0) + 1],
     para_id |-> start_id + Len(flat),
     lists |-> lists0 \o [k \in 1..(Len(flat) + 1) |-> cur]]

\* process_table(table, start_id, section_tracker) -> (table_data, para_id)
\* together with the heap of lists after the copies it makes: one for
\* table_data["section_hierarchy"], then one per cell paragraph
process_table(table, start_id, self) ==
    ProcessFlat(table, CellParagraphs(table), start_id, self.lists,
                get_current_hierarchy(self))

\* parse_document, the loop body for a table block
TableDone(res) ==
    /\ para_id' = res.para_id
    /\ lists' = res.lists
    /\ content' = Append(content, res.table_data)
    /\ log' = Append(log, LogEntry(FALSE, Self))
    /\ UNCHANGED <<hierarchy, counters, last_level, last_numId, dicts,
                   sections, exhibits>>

\* process_table raises where get_paragraph_style_info raises for a cell
\* paragraph
TableRaises(table) ==
    \E k \in 1..Len(CellParagraphs(table)) : Raises(CellParagraphs(table)[k].para)

ParseTable(block) ==
    /\ raised = None
    /\ IF TableRaises(block)
       THEN /\ ReadBlock(block)
            /\ raised' = Some("ValueError")
            /\ UNCHANGED <<hierarchy, counters, last_level, last_numId, lists,
                           dicts, para_id, content, sections, exhibits, log,
                           revisions, rebuilt, beside>>
       ELSE TableDone(process_table(block, para_id, Self)) /\ Read(block)

\* The next block of the document is a paragraph
NextParagraph ==
    /\ Len(content) < MaxBlocks
    /\ \E block \in SampleParagraphs : ParseParagraph(block)

\* The next block of the document is a table
NextTable ==
    /\ Len(content) < MaxBlocks
    /\ \E block \in SampleTables : ParseTable(block)

Next == NextParagraph \/ NextTable

Spec == Init /\ [][Next]_vars

(***************************************************************************)
(* Label generation on its own: the tracker starts with the counter of one *)
(* level at any value below MaxCount (the state after that many            *)
(* list-numbered paragraphs of list 1 at that level), and one list-numbered*)
(* paragraph is parsed.                                                    *)
(***************************************************************************)
InitLabel ==
    /\ lists = << <<>> >>
    /\ dicts = <<>>
    /\ hierarchy = 1
    /\ \E l \in 0..MaxLabelLevel, n \in 0..(MaxCount - 1) :
           counters = IF n = 0 THEN <<>> ELSE (l :> n)
    /\ last_level = -1
    /\ last_numId = Some(Str(1))
    /\ para_id = 0
    /\ content = <<>>
    /\ sections = <<>>
    /\ exhibits = <<>>
    /\ log = <<>>
    /\ InitSession

NextLabel ==
    /\ Len(content) < 1
    /\ \E block \in LabelParagraphs : ParseParagraph(block)

SpecLabel == InitLabel /\ [][NextLabel]_vars

(***************************************************************************)
(* Documents made of paragraphs with textual markers of every format.      *)
(***************************************************************************)
NextFormat ==
    /\ Len(content) < MaxFormatBlocks
    /\ \E block \in FormatParagraphs : ParseParagraph(block)

SpecFormat == Init /\ [][NextFormat]_vars

(***************************************************************************)
(* Documents in which a paragraph, top-level or in a table cell, may have  *)
(* an indent level that is not a number.                                   *)
(***************************************************************************)
NextMalformedParagraph ==
    /\ Len(files[OriginalPath].blocks) < MaxMalformedBlocks
    /\ \E block \in MalformedParagraphs : ParseParagraph(block)

NextMalformedTable ==
    /\ Len(files[OriginalPath].blocks) < MaxMalformedBlocks
    /\ \E block \in MalformedTables : ParseTable(block)

NextMalformed == NextMalformedParagraph \/ NextMalformedTable

SpecMalformed == Init /\ [][NextMalformed]_vars

(***************************************************************************)
(* Documents whose level-0 labels are numbers, from two numbered lists and *)
(* from textual markers.                                                   *)
(***************************************************************************)
NextRef ==
    /\ Len(content) < MaxRefBlocks
    /\ \E block \in RefParagraphs : ParseParagraph(block)

SpecRef == Init /\ [][NextRef]_vars

\* Documents around the paragraph of the closing date
NextScenario ==
    /\ Len(content) < MaxScenarioBlocks
    /\ \E block \in ScenarioParagraphs : ParseParagraph(block)

SpecScenario == Init /\ [][NextScenario]_vars

(***************************************************************************)
(* Rebuilding a container with revisions applied.                          *)
(* revisions maps a paragraph id to a revision                             *)
(*   [accepted, original, revised].                                        *)
(***************************************************************************)
\* Whether Python takes an optional font name, or font size, as true
TruthyName(v) == v # None /\ v[1] # <<>>

TruthySize(v) == v # None /\ v[1] # 0

\* The formatting of the first run after replace_paragraph_text has assigned
\* the saved bold, italic and underline back, and the saved font name and
\* size where they are set
Restore(fmt, first_run_format) ==
    [bold      |-> first_run_format.bold,
     italic    |-> first_run_format.italic,
     underline |-> first_run_format.underline,
     font_name |-> IF TruthyName(first_run_format.font_name)
                   THEN first_run_format.font_name ELSE fmt.font_name,
     font_size |-> IF TruthySize(first_run_format.font_size)
                   THEN first_run_format.font_size ELSE fmt.font_size]

\* The position among the children of the paragraph's first run
FirstRun(paragraph) ==
    CHOOSE i \in 1..Len(paragraph.children) :
        /\ paragraph.children[i].kind = "r"
        /\ \A j \in 1..(i - 1) : paragraph.children[j].kind # "r"

\* replace_paragraph_text with the first run's position and saved format
ReplaceInRuns(paragraph, new_text, first, first_run_format) ==
    [paragraph EXCEPT !.children =
        [i \in 1..Len(paragraph.children) |->
            IF paragraph.children[i].kind # "r" THEN paragraph.children[i]
            ELSE IF i = first
                 THEN [paragraph.children[i] EXCEPT
                          !.text = new_text,
                          !.fmt = Restore(@, first_run_format)]
                 ELSE [paragraph.children[i] EXCEPT !.text = <<>>]]]

\* Mutant of replace_paragraph_text: the runs after the first keep their text
replace_paragraph_text_KeepsLaterRuns(paragraph, new_text) ==
    IF Runs(paragraph) = <<>>
    THEN [paragraph EXCEPT !.children = <<Run(new_text, F_plain)>>]
    ELSE [paragraph EXCEPT !.children[FirstRun(paragraph)].text = new_text]

\* replace_paragraph_text(paragraph, new_text).  Without runs, the text
\* setter of the paragraph removes its content and adds one run.
replace_paragraph_text(paragraph, new_text) ==
    IF Runs(paragraph) = <<>>
    THEN [paragraph EXCEPT !.children = <<Run(new_text, F_plain)>>]
    ELSE ReplaceInRuns(paragraph, new_text, FirstRun(paragraph),
                       paragraph.children[FirstRun(paragraph)].fmt)

\* _apply_run_formatting: the properties of a run made from the saved format
\* of the first run (None when the paragraph had no run).  An element is
\* written only for a value Python takes as true.
apply_run_formatting(first_run_format) ==
    IF first_run_format = None THEN F_plain
    ELSE Format(IF first_run_format[1].bold = Some(TRUE) THEN Some(TRUE) ELSE None,
                IF first_run_format[1].italic = Some(TRUE) THEN Some(TRUE) ELSE None,
                IF first_run_format[1].underline = Some(TRUE) THEN Some(TRUE) ELSE None,
                IF TruthyName(first_run_format[1].font_name)
                THEN first_run_format[1].font_name ELSE None,
                IF TruthySize(first_run_format[1].font_size)
                THEN first_run_format[1].font_size ELSE None)

\* The length of the longest common prefix of a and b
CommonPrefix(a, b) ==
    Max({n \in 0..Min(Len(a), Len(b)) : SubSeq(a, 1, n) = SubSeq(b, 1, n)})

\* The length of the longest common suffix of a and b
CommonSuffix(a, b) ==
    Max({n \in 0..Min(Len(a), Len(b)) :
            SubSeq(a, Len(a) - n + 1, Len(a)) = SubSeq(b, Len(b) - n + 1, Len(b))})

\* The diff of the texts left once the common prefix of length p is taken
\* off: a deletion, an insertion and the common suffix, where not empty
DiffTail(a, b, s) ==
    (IF Len(a) > s THEN <<[op |-> -1, text |-> SubSeq(a, 1, Len(a) - s)]>> ELSE <<>>)
    \o (IF Len(b) > s THEN <<[op |-> 1, text |-> SubSeq(b, 1, Len(b) - s)]>> ELSE <<>>)
    \o (IF s > 0 THEN <<[op |-> 0, text |-> SubSeq(a, Len(a) - s + 1, Len(a))]>> ELSE <<>>)

DiffFrom(a, b, p) ==
    (IF p > 0 THEN <<[op |-> 0, text |-> SubSeq(a, 1, p)]>> ELSE <<>>)
    \o DiffTail(From(a, p + 1), From(b, p + 1),
                CommonSuffix(From(a, p + 1), From(b, p + 1)))

\* dmp.diff_main followed by dmp.diff_cleanupSemantic, for two texts whose
\* parts between the common prefix and the common suffix share nothing: the
\* common prefix, the deleted part, the inserted part, the common suffix
diff_main(original_text, revised_text) ==
    DiffFrom(original_text, revised_text, CommonPrefix(original_text, revised_text))

\* The date of the revision marks: datetime.now(), one value
RevDate == "now"

\* str(hash(text) % 100000): within one run of the program a function of the
\* text alone, written here as the text it is computed from
HashId(text) == <<"#">> \o text

\* Mutant of DiffElement: an insertion is a plain run, and a deletion is
\* marked without the author
DiffElement_Unattributed(d, fmt, author_name) ==
    [kind |-> IF d.op = -1 THEN "del" ELSE "r",
     text |-> d.text,
     fmt  |-> fmt,
     mark |-> IF d.op = -1
              THEN Some([id |-> HashId(d.text), author |-> <<>>, date |-> RevDate])
              ELSE None]

\* The element made for one piece of the diff
DiffElement(d, fmt, author_name) ==
    [kind |-> IF d.op = 0 THEN "r" ELSE IF d.op = -1 THEN "del" ELSE "ins",
     text |-> d.text,
     fmt  |-> fmt,
     mark |-> IF d.op = 0 THEN None
              ELSE Some([id |-> HashId(d.text), author |-> author_name,
                         date |-> RevDate])]

\* The paragraph after its runs are removed and the elements of the diff
\* are appended
AppendDiff(paragraph, diffs, fmt, author_name) ==
    [paragraph EXCEPT !.children =
        SelectSeq(paragraph.children, LAMBDA e : e.kind # "r")
        \o [i \in 1..Len(diffs) |-> DiffElement(diffs[i], fmt, author_name)]]

\* _apply_track_changes_to_paragraph
apply_track_changes_to_paragraph(paragraph, original_text, revised_text, author_name) ==
    AppendDiff(paragraph, diff_main(original_text, revised_text),
               apply_run_formatting(IF Runs(paragraph) = <<>> THEN None
                                    ELSE Some(Runs(paragraph)[1].fmt)),
               author_name)


\* Mutant of revised_lookup: the revised text of every revision
revised_lookup_AllRevisions(revs) ==
    [para_key \in DOMAIN revs |-> revs[para_key].revised]

\* revised_lookup of rebuild_document: the revised text of every accepted
\* revision
revised_lookup(revs) ==
    [para_key \in {k \in DOMAIN revs : revs[k].accepted} |-> revs[para_key].revised]

\* Mutant of accepted_revisions: every revision, accepted or not
accepted_revisions_All(revs) ==
    [para_key \in DOMAIN revs |-> revs[para_key]]

\* accepted_revisions of generate_final_documents: the accepted revisions
accepted_revisions(revs) ==
    [para_key \in {k \in DOMAIN revs : revs[k].accepted} |-> revs[para_key]]

\* Whether the walk rewrites the paragraph for the entry found under its
\* key: clean mode compares the stripped text of the paragraph with the
\* revised text, tracked mode the revision's original and revised texts
Differs(mode, paragraph, entry) ==
    IF mode = "clean" THEN Strip(Text(paragraph)) # entry
    ELSE entry.original # entry.revised

\* The paragraph rewritten for the entry found under its key
Rewrite(mode, paragraph, entry, author_name) ==
    IF mode = "clean" THEN replace_paragraph_text(paragraph, entry)
    ELSE apply_track_changes_to_paragraph(paragraph, entry.original,
                                          entry.revised, author_name)

\* The positions of the paragraphs of the table that is block i, in the
\* order of: for row in block.rows, for cell in row.cells, for para in
\* cell.paragraphs
TablePositions(i, rows) ==
    Concat([r \in 1..Len(rows) |->
        Concat([c \in 1..Len(rows[r]) |->
            [k \in 1..Len(rows[r][c]) |-> <<i, r, c, k>>]])])

\* The positions of the paragraphs of a document in the order in which the
\* loops over iter_block_items(doc) and over the tables reach them
Positions(blocks) ==
    Concat([i \in 1..Len(blocks) |->
        IF IsParagraph(blocks[i]) THEN << <<i>> >>
        ELSE TablePositions(i, blocks[i].rows)])

\* The paragraph at a position of a document's blocks
ParagraphAt(blocks, at) ==
    IF Len(at) = 1 THEN blocks[at[1]]
    ELSE blocks[at[1]].rows[at[2]][at[3]][at[4]]

\* Mutant of ParaIdAt: the paragraphs of table cells are not counted
RECURSIVE ParaIdAt_CellsNotCounted(_, _)
ParaIdAt_CellsNotCounted(positions, n) ==
    IF n = 0 THEN 0
    ELSE ParaIdAt_CellsNotCounted(positions, n - 1)
         + (IF Len(positions[n]) = 1 THEN 1 ELSE 0)

\* para_id when the walk is at the n-th paragraph it reaches: para_id = 0
\* before the loop, para_id += 1 at every paragraph, top-level or in a cell
RECURSIVE ParaIdAt(_, _)
ParaIdAt(positions, n) ==
    IF n = 0 THEN 0 ELSE ParaIdAt(positions, n - 1) + 1

\* What a walk does at one paragraph, with para_key the key derived there
\* and hit whether the paragraph is rewritten: out is the paragraph as the
\* walk leaves it
Visited(paragraph, at, para_key, hit, mode, lookup, author_name) ==
    [at |-> at, key |-> para_key, rewritten |-> hit,
     out |-> IF hit THEN Rewrite(mode, paragraph, lookup[para_key], author_name)
             ELSE paragraph]

\* The body of the walks for one paragraph: the key is looked up and, if
\* found and the text differs, the paragraph is rewritten
Visit(paragraph, at, para_key, mode, lookup, author_name) ==
    Visited(paragraph, at, para_key,
            para_key \in DOMAIN lookup /\ Differs(mode, paragraph, lookup[para_key]),
            mode, lookup, author_name)

\* The walk over the paragraphs of a document: what it does at the n-th
\* paragraph it reaches, for every n
Visits(blocks, positions, mode, lookup, author_name) ==
    [n \in 1..Len(positions) |->
        Visit(ParagraphAt(blocks, positions[n]), positions[n],
              Id(<<"p">>, ParaIdAt(positions, n)), mode, lookup, author_name)]

\* changes_made after the first n paragraphs: 0 before the loop, += 1 at
\* every rewritten paragraph
RECURSIVE ChangesMade(_, _)
ChangesMade(visits, n) ==
    IF n = 0 THEN 0
    ELSE ChangesMade(visits, n - 1) + (IF visits[n].rewritten THEN 1 ELSE 0)

\* The paragraphs are edited in place: the document keeps its blocks, rows
\* and cells, and holds at each position the paragraph the walk left there
InPlace(blocks, positions, visits) ==
    [i \in 1..Len(blocks) |->
        IF IsParagraph(blocks[i])
        THEN visits[CHOOSE n \in 1..Len(positions) : positions[n] = <<i>>].out
        ELSE Table([r \in 1..Len(blocks[i].rows) |->
                 [c \in 1..Len(blocks[i].rows[r]) |->
                     [k \in 1..Len(blocks[i].rows[r][c]) |->
                         visits[CHOOSE n \in 1..Len(positions) :
                                    positions[n] = <<i, r, c, k>>].out]]])]

\* The end of a walk: the count of changes, the document, and as history
\* the key derived at each paragraph position
Walked(blocks, positions, visits) ==
    [changes_made |-> ChangesMade(visits, Len(visits)),
     walk |-> [n \in 1..Len(visits) |->
                  [at |-> visits[n].at, key |-> visits[n].key,
                   rewritten |-> visits[n].rewritten]],
     out |-> InPlace(blocks, positions, visits)]

WalkAt(blocks, positions, mode, lookup, author_name) ==
    Walked(blocks, positions, Visits(blocks, positions, mode, lookup, author_name))

\* for block in iter_block_items(doc), with the loops over the tables
WalkBlocks(blocks, mode, lookup, author_name) ==
    WalkAt(blocks, Positions(blocks), mode, lookup, author_name)

\* Where the input and output system can fail in a rebuild: nowhere; in the
\* duplication, before the destination is written; in doc.save, before the
\* destination is written or with the destination partly written
Faults == {"none", "copy", "save_unwritten", "save_partial"}

\* A rebuild that ends with an exception
Failed(fs, name, walk) ==
    [files |-> fs, raised |-> Some(name), returned |-> None, walk |-> walk]

\* The end of a rebuild whose walk w went through the duplicate: doc.save
Saved(fs, output_path, w, returned, fault) ==
    IF fault = "save_unwritten" THEN Failed(fs, "OSError", w.walk)
    ELSE IF fault = "save_partial"
    THEN Failed([fs EXCEPT ![output_path] = Corrupt], "OSError", w.walk)
    ELSE [files    |-> [fs EXCEPT ![output_path] = File(w.out)],
          raised   |-> None,
          returned |-> IF returned THEN Some(w.changes_made) ELSE None,
          walk     |-> w.walk]

\* Mutant of WorkingPath: the original is opened, edited and saved
WorkingPath_Original(original_path, output_path) == original_path

\* The path of the container that is opened, edited and saved: the duplicate
WorkingPath(original_path, output_path) == output_path

\* shutil.copy2(original_path, output_path)
Duplicate(fs, original_path, output_path) ==
    [fs EXCEPT ![output_path] = fs[original_path]]

\* A rebuild in either mode: shutil.copy2, Document(output_path), the walk
\* over the duplicate and doc.save.  fs is the file system, fs1 the file
\* system after the duplication, path the path of the opened container.
Rebuild(fs, fs1, original_path, output_path, path, mode, lookup, author_name, fault) ==
    IF fs[original_path].state = "absent" THEN Failed(fs, "FileNotFoundError", <<>>)
    ELSE IF original_path = output_path THEN Failed(fs, "SameFileError", <<>>)
    ELSE IF fault = "copy" THEN Failed(fs, "OSError", <<>>)
    ELSE IF fs1[path].state = "corrupt"
    THEN Failed(fs1, "PackageNotFoundError", <<>>)
    ELSE Saved(fs1, path,
               WalkBlocks(fs1[path].blocks, mode, lookup, author_name),
               mode = "clean", fault)

\* rebuild_document(original_path, revisions, output_path) -> changes_made
rebuild_document(fs, original_path, revs, output_path, fault) ==
    Rebuild(fs, Duplicate(fs, original_path, output_path), original_path,
            output_path, WorkingPath(original_path, output_path), "clean",
            revised_lookup(revs), None, fault)

\* _generate_track_changes_with_redlines(original_path, accepted_revisions,
\*                                       output_path, author_name)
generate_track_changes_with_redlines(fs, original_path, accepted, output_path, author_name, fault) ==
    Rebuild(fs, Duplicate(fs, original_path, output_path), original_path,
            output_path, WorkingPath(original_path, output_path), "tracked", accepted,
            author_name, fault)


(***************************************************************************)
(* A session: a document is parsed, then rebuilt with the session's        *)
(* revisions, in clean or in tracked mode, from the original or from a     *)
(* container rebuilt before, each time to a path not written yet.          *)
(***************************************************************************)
NextRebuildParagraph ==
    /\ rebuilt = None
    /\ Len(files[OriginalPath].blocks) < MaxRebuildBlocks
    /\ \E block \in RebuildParagraphs : ParseParagraph(block)

NextRebuildTable ==
    /\ rebuilt = None
    /\ Len(files[OriginalPath].blocks) < MaxRebuildBlocks
    /\ \E block \in RebuildTables : ParseTable(block)

\* The first output path not written yet
FreePath(path) ==
    /\ files[path].state = "absent"
    /\ path = "out2" => files["out1"].state # "absent"

\* The revision sets a rebuild may be called with: any, and after the first
\* rebuild those of the session
SessionRevisions == IF rebuilt = None THEN RevisionSets ELSE {revisions}

\* The state after a rebuild call with result res
RebuildDone(call, res) ==
    /\ files' = res.files
    /\ raised' = res.raised
    /\ revisions' = call.revisions
    /\ rebuilt' = Some([call |-> call, returned |-> res.returned, walk |-> res.walk])
    /\ UNCHANGED <<hierarchy, counters, last_level, last_numId, lists, dicts,
                   para_id, content, sections, exhibits, log, beside>>

Call(mode, original_path, revs, output_path, fault) ==
    [mode |-> mode, original_path |-> original_path, revisions |-> revs,
     output_path |-> output_path, fault |-> fault]

\* A call of rebuild_document
CleanCall(call) ==
    RebuildDone(call, rebuild_document(files, call.original_path, call.revisions,
                                       call.output_path, call.fault))

\* A call of _generate_track_changes_with_redlines with the accepted
\* revisions, as generate_final_documents makes it
TrackedCall(call) ==
    RebuildDone(call, generate_track_changes_with_redlines(
                          files, call.original_path,
                          accepted_revisions(call.revisions),
                          call.output_path, AuthorName, call.fault))

\* A rebuild is called once the document is parsed, from a container that
\* exists to the first output path not written yet
RebuildClean ==
    /\ raised = None \/ rebuilt # None
    /\ \E output_path \in {path \in OutputPaths : FreePath(path)} :
        \E original_path \in {path \in Paths : files[path].state # "absent"} :
            \E revs \in SessionRevisions, fault \in Faults :
                CleanCall(Call("clean", original_path, revs, output_path, fault))

RebuildTracked ==
    /\ raised = None \/ rebuilt # None
    /\ \E output_path \in {path \in OutputPaths : FreePath(path)} :
        \E original_path \in {path \in Paths : files[path].state # "absent"} :
            \E revs \in SessionRevisions, fault \in Faults :
                TrackedCall(Call("tracked", original_path, revs, output_path, fault))

NextRebuild ==
    NextRebuildParagraph \/ NextRebuildTable \/ RebuildClean \/ RebuildTracked

SpecRebuild == Init /\ [][NextRebuild]_vars

(***************************************************************************)
(* generate_final_documents                                                *)
(***************************************************************************)
\* The output paths of a session: output_dir / '{session_id}_track_changes
\* .docx' and output_dir / '{session_id}_clean.docx'
TrackChangesPath == "out1"

CleanPath == "out2"

PreviewLength == 100

\* s[:n]
Slice(s, n) == SubSeq(s, 1, IF Len(s) < n THEN Len(s) ELSE n)

\* The orders in which a dict with the given keys can hold them
Orders(keys) ==
    { order \in [1..Cardinality(keys) -> keys] :
        \A i, j \in 1..Cardinality(keys) : i # j => order[i] # order[j] }

\* The first item of parsed_doc['content'] with the id, or None
ItemOf(parsed_content, para_key) ==
    LET found == {i \in 1..Len(parsed_content) :
                    Get(parsed_content[i], "id", None) = para_key}
    IN IF found = {} THEN None
       ELSE Some(parsed_content[CHOOSE i \in found : \A j \in found : i <= j])

\* The entry of revision_details for an accepted revision
RevisionDetail(parsed_content, para_key, revision) ==
    LET item == ItemOf(parsed_content, para_key)
        section_ref == IF item = None THEN None
                       ELSE Get(item[1], "section_ref", Some(<<>>))
        preview == IF item = None THEN Slice(revision.original, PreviewLength)
                   ELSE Slice(Get(item[1], "text", <<>>), PreviewLength)
    IN [para_id |-> para_key,
        section_ref |-> IF section_ref = None \/ section_ref = Some(<<>>)
                        THEN para_key ELSE section_ref[1],
        original_preview |->
            preview \o (IF Len(revision.original) > PreviewLength
                        THEN <<".", ".", ".">> ELSE <<>>),
        rationale |-> Get(revision, "rationale", "No rationale provided")]

\* revision_details: an entry per accepted revision, in the order of the dict
RECURSIVE RevisionDetails(_, _, _)
RevisionDetails(parsed_content, revs, order) ==
    IF order = <<>> THEN <<>>
    ELSE LET rest == RevisionDetails(parsed_content, revs,
                                     SubSeq(order, 1, Len(order) - 1))
             para_key == order[Len(order)]
         IN IF revs[para_key].accepted
            THEN Append(rest, RevisionDetail(parsed_content, para_key, revs[para_key]))
            ELSE rest

\* Mutant of Attempted: the markup is attempted without the library
Attempted_Always(has_redlines, accepted) == DOMAIN accepted # {}

\* HAS_REDLINES and accepted_revisions
Attempted(has_redlines, accepted) == has_redlines /\ DOMAIN accepted # {}

\* Why the document at the track changes path was written by
\* rebuild_document, or None where the markup wrote it
FallbackReason(has_redlines, accepted, tracked) ==
    IF ~has_redlines THEN Some("unavailable")
    ELSE IF DOMAIN accepted = {} THEN Some("none_accepted")
    ELSE IF tracked.raised # None THEN Some("raised")
    ELSE None

\* Mutant of Fallback: the exception of the markup is dropped and the track
\* changes path is left as the markup left it
Fallback_Skipped(fs, original_path, revs, fault) ==
    [files |-> fs, raised |-> None, returned |-> None, walk |-> <<>>]

\* The except and else branches: rebuild_document(original_path, revisions,
\* track_changes_path)
Fallback(fs, original_path, revs, fault) ==
    rebuild_document(fs, original_path, revs, TrackChangesPath, fault)

\* generate_final_documents(session_id, original_path, parsed_doc, revisions,
\* author_name).  order is the order of the keys of revisions, fault the
\* faults of the markup call, of the rebuild call in its place and of the
\* clean rebuild.  fallback, log and walk are history: the function writes no
\* log record and returns the dict alone.
generate_final_documents(fs, original_path, parsed_content, revs, order, author_name, has_redlines, fault) ==
    LET accepted == accepted_revisions(revs)
        attempt == Attempted(has_redlines, accepted)
        tracked == generate_track_changes_with_redlines(
                       fs, original_path, accepted, TrackChangesPath,
                       author_name, fault.tracked)
        reason == FallbackReason(has_redlines, accepted, tracked)
        track == IF attempt /\ tracked.raised = None THEN tracked
                 ELSE Fallback(IF attempt THEN tracked.files ELSE fs,
                               original_path, revs, fault.fallback)
        clean == rebuild_document(track.files, original_path, revs, CleanPath,
                                  fault.clean)
        ended == IF track.raised # None THEN track ELSE clean
    IN [files    |-> ended.files,
        raised   |-> ended.raised,
        returned |->
            IF ended.raised # None THEN None
            ELSE Some([track_changes_path |-> TrackChangesPath,
                       clean_path |-> CleanPath,
                       revision_count |-> Cardinality(DOMAIN accepted),
                       revision_details |->
                           RevisionDetails(parsed_content, revs, order)]),
        fallback |-> reason,
        log      |-> <<>>,
        walk     |-> [track |-> track.walk, clean |-> clean.walk]]

(***************************************************************************)
(* A session that ends with the export: a document is parsed, then         *)
(* generate_final_documents is called with the session's revisions.        *)
(***************************************************************************)
NextFinalParagraph ==
    /\ final = None
    /\ Len(files[OriginalPath].blocks) < MaxFinalBlocks
    /\ \E block \in RebuildParagraphs : ParseParagraph(block)

NextFinalTable ==
    /\ final = None
    /\ Len(files[OriginalPath].blocks) < MaxFinalBlocks
    /\ \E block \in RebuildTables : ParseTable(block)

\* The faults of the calls that a call of generate_final_documents makes
FinalFaults(has_redlines, revs) ==
    LET attempt == Attempted(has_redlines, accepted_revisions(revs))
    IN { fault \in [tracked : Faults, fallback : Faults, clean : Faults] :
           /\ ~attempt => fault.tracked = "none"
           /\ attempt /\ fault.tracked = "none" => fault.fallback = "none" }

FinalCall(revs, order, has_redlines, fault) ==
    [revisions |-> revs, order |-> order, has_redlines |-> has_redlines,
     fault |-> fault]

\* The state after a call of generate_final_documents with result res
FinalDone(call, res) ==
    /\ files' = res.files
    /\ raised' = res.raised
    /\ revisions' = call.revisions
    /\ final' = Some([call |-> call, returned |-> res.returned,
                      fallback |-> res.fallback, log |-> res.log,
                      walk |-> res.walk])
    /\ UNCHANGED <<hierarchy, counters, last_level, last_numId, lists, dicts,
                   para_id, content, sections, exhibits, log, rebuilt,
                   html_cache, rendered, runs, session, calls>>

\* The export of a parsed document, once in a session
GenerateFinalDocuments ==
    /\ raised = None
    /\ final = None
    /\ \E revs \in RevisionSets, has_redlines \in BOOLEAN :
        \E order \in Orders(DOMAIN revs), fault \in FinalFaults(has_redlines, revs) :
            FinalDone(FinalCall(revs, order, has_redlines, fault),
                      generate_final_documents(files, OriginalPath, content, revs,
                                               order, AuthorName, has_redlines,
                                               fault))

NextFinal == NextFinalParagraph \/ NextFinalTable \/ GenerateFinalDocuments

SpecFinal == Init /\ [][NextFinal]_vars

(***************************************************************************)
(* html_renderer: the preview of a container and its cache file.           *)
(***************************************************************************)
\* The <p> element of a paragraph: the text of its runs and marks
HtmlParagraph(paragraph) ==
    [para_id |-> None,
     runs |-> [i \in 1..Len(paragraph.children) |->
                 [kind |-> paragraph.children[i].kind,
                  text |-> paragraph.children[i].text]]]

\* docx_to_html(path): a <p> element per paragraph of the container, in
\* document order
docx_to_html(blocks) ==
    LET positions == Positions(blocks)
    IN [k \in 1..Len(positions) |-> HtmlParagraph(ParagraphAt(blocks, positions[k]))]

\* add_preview_wrapper(html): the content in the div of the preview
add_preview_wrapper(raw_html) ==
    [class |-> "document-preview", paragraphs |-> raw_html]

\* inject_paragraph_ids(html, paragraph_ids): the k-th <p> gets the k-th id
inject_paragraph_ids(html, paragraph_ids) ==
    [html EXCEPT !.paragraphs =
        [k \in 1..Len(html.paragraphs) |->
            IF k <= Len(paragraph_ids)
            THEN [html.paragraphs[k] EXCEPT !.para_id = Some(paragraph_ids[k])]
            ELSE html.paragraphs[k]]]

\* if paragraph_ids: html = inject_paragraph_ids(html, paragraph_ids)
Injected(html, paragraph_ids) ==
    IF paragraph_ids = None \/ paragraph_ids = Some(<<>>) THEN html
    ELSE inject_paragraph_ids(html, paragraph_ids[1])

\* Mutant of CacheHit: the cache file is read only while it was written from
\* the container that is at the path now
CacheHit_Fresh(fs, cache, docx_path, use_cache) ==
    /\ use_cache
    /\ cache[docx_path] # None
    /\ fs[docx_path].state = "ok"
    /\ cache[docx_path] = Some(add_preview_wrapper(docx_to_html(fs[docx_path].blocks)))

\* use_cache and cache_path.exists()
CacheHit(fs, cache, docx_path, use_cache) ==
    use_cache /\ cache[docx_path] # None

\* render_document_html(docx_path, paragraph_ids, use_cache): the html
\* returned, or the exception raised, and the cache files after the call
render_document_html(fs, cache, docx_path, paragraph_ids, use_cache) ==
    IF CacheHit(fs, cache, docx_path, use_cache)
    THEN [html |-> Some(Injected(cache[docx_path][1], paragraph_ids)),
          raised |-> None, cache |-> cache]
    ELSE IF fs[docx_path].state # "ok"
    THEN [html |-> None,
          raised |-> Some(IF fs[docx_path].state = "absent"
                          THEN "FileNotFoundError" ELSE "BadZipFile"),
          cache |-> cache]
    ELSE [html |-> Some(Injected(add_preview_wrapper(docx_to_html(fs[docx_path].blocks)),
                                 paragraph_ids)),
          raised |-> None,
          cache |-> IF use_cache
                    THEN [cache EXCEPT ![docx_path] =
                            Some(add_preview_wrapper(docx_to_html(fs[docx_path].blocks)))]
                    ELSE cache]

\* clear_html_cache(docx_path)
clear_html_cache(cache, docx_path) == [cache EXCEPT ![docx_path] = None]

(***************************************************************************)
(* A session with previews: a document is parsed, exported any number of   *)
(* times to the session's two output paths with the revisions of the       *)
(* moment, and the containers are rendered.                                *)
(***************************************************************************)
\* The revisions of the sessions with previews
PreviewRevisionSets ==
    { <<>>,
      [k \in {P_1} |-> Revision(TRUE, T_body, T_new)],
      [k \in {P_1} |-> Revision(FALSE, T_body, T_new)] }

\* The paragraph ids a preview is rendered with: none, the id of the first
\* paragraph
PreviewIds == {None, Some(<<P_1>>)}

\* The containers that are previewed: the exported ones
PreviewPaths == {TrackChangesPath, CleanPath}

NoFault == [tracked |-> "none", fallback |-> "none", clean |-> "none"]

NextPreviewParagraph ==
    /\ final = None
    /\ rendered = None
    /\ Len(files[OriginalPath].blocks) < MaxPreviewBlocks
    /\ \E block \in RebuildParagraphs : ParseParagraph(block)

NextPreviewTable ==
    /\ final = None
    /\ rendered = None
    /\ Len(files[OriginalPath].blocks) < MaxPreviewBlocks
    /\ \E block \in RebuildTables : ParseTable(block)

\* An export with the revisions of the moment; it writes the two output
\* paths again
ExportAgain ==
    /\ raised = None
    /\ \E revs \in PreviewRevisionSets, has_redlines \in BOOLEAN :
        \E order \in Orders(DOMAIN revs) :
            FinalDone(FinalCall(revs, order, has_redlines, NoFault),
                      generate_final_documents(files, OriginalPath, content, revs,
                                               order, AuthorName, has_redlines,
                                               NoFault))

\* A call of render_document_html.  rendered keeps the call, its result and
\* the container that was at the path.
RenderDocumentHtml ==
    /\ raised = None
    /\ \E docx_path \in PreviewPaths, paragraph_ids \in PreviewIds, use_cache \in BOOLEAN :
        LET res == render_document_html(files, html_cache, docx_path,
                                        paragraph_ids, use_cache)
        IN /\ html_cache' = res.cache
           /\ rendered' = Some([docx_path |-> docx_path,
                                paragraph_ids |-> paragraph_ids,
                                use_cache |-> use_cache,
                                source |-> files[docx_path],
                                html |-> res.html,
                                raised |-> res.raised])
    /\ UNCHANGED <<hierarchy, counters, last_level, last_numId, lists, dicts,
                   para_id, content, sections, exhibits, log, files, raised,
                   revisions, rebuilt, final, runs, session, calls>>

\* A call of clear_html_cache
ClearHtmlCache ==
    /\ \E docx_path \in PreviewPaths :
        /\ html_cache[docx_path] # None
        /\ html_cache' = clear_html_cache(html_cache, docx_path)
    /\ UNCHANGED <<hierarchy, counters, last_level, last_numId, lists, dicts,
                   para_id, content, sections, exhibits, log, files, raised,
                   revisions, rebuilt, final, rendered, runs, session, calls>>

NextPreview ==
    \/ NextPreviewParagraph
    \/ NextPreviewTable
    \/ ExportAgain
    \/ RenderDocumentHtml
    \/ ClearHtmlCache

SpecPreview == Init /\ [][NextPreview]_vars

(***************************************************************************)
(* Two invocations at a time, each on a document of its own: each parses   *)
(* its document block by block, then rebuilds it to its output path in     *)
(* three steps (shutil.copy2, Document(output_path), the walk and          *)
(* doc.save), and the steps of the two interleave in any order.            *)
(***************************************************************************)
\* The blocks of the documents
ConcurrentBlocks ==
    { Para(T_body, S_list, NumPr(0, 1)),
      Para(T_top, S_normal, None),
      Table_2x2 }

\* The revisions of the rebuilds
ConcurrentRevisions == [k \in {P_1} |-> Revision(TRUE, T_body, T_new)]

\* Mutant of TrackerOf: one SectionTracker object, made when the module is
\* loaded, serves every invocation
TrackerOf_Shared(i) == 1

\* The SectionTracker object of an invocation: section_tracker =
\* SectionTracker() makes one in each call of parse_document
TrackerOf(i) == i

\* The loop body of parse_document for a block, from the tracker self, the
\* counter id0 and the content so far
ParseBlock(self, id0, cont, block) ==
    IF IsParagraph(block)
    THEN LET a == Analysed[block]
             self1 == Tracked(self, a)
             cur == get_current_hierarchy(self1)
         IN [self    |-> [self1 EXCEPT !.lists = IF IsSection(a) THEN @ \o <<cur, cur>>
                                                ELSE Append(@, cur)],
             para_id |-> id0 + 1,
             content |-> Append(cont, ParaData(id0 + 1, a, self1))]
    ELSE LET res == process_table(block, id0, self)
         IN [self    |-> [self EXCEPT !.lists = res.lists],
             para_id |-> res.para_id,
             content |-> Append(cont, res.table_data)]

\* An invocation of parse_document reads the next block of its document
ConcurrentParse ==
    /\ \E i \in Invocations :
        /\ runs.inv[i].pc = "parse"
        /\ Len(runs.inv[i].blocks) < MaxConcurrentBlocks
        /\ \E block \in ConcurrentBlocks :
            LET res == ParseBlock(runs.tracker[TrackerOf(i)], runs.inv[i].para_id,
                                  runs.inv[i].content, block)
            IN runs' = [runs EXCEPT
                            !.tracker[TrackerOf(i)] = res.self,
                            !.inv[i].blocks = Append(@, block),
                            !.inv[i].para_id = res.para_id,
                            !.inv[i].content = res.content]
    /\ UNCHANGED <<hierarchy, counters, last_level, last_numId, lists, dicts,
                   para_id, content, sections, exhibits, log, files, raised,
                   revisions, rebuilt, final, html_cache, rendered, session,
                   calls>>

\* An invocation of rebuild_document duplicates its document to its output
\* path
ConcurrentCopy ==
    /\ \E i \in Invocations :
        /\ runs.inv[i].pc = "parse"
        /\ runs' = [runs EXCEPT
                        !.fs[OutputPathOf(i)] = File(runs.inv[i].blocks),
                        !.inv[i].pc = "copied"]
    /\ UNCHANGED <<hierarchy, counters, last_level, last_numId, lists, dicts,
                   para_id, content, sections, exhibits, log, files, raised,
                   revisions, rebuilt, final, html_cache, rendered, session,
                   calls>>

\* doc = Document(output_path)
ConcurrentOpen ==
    /\ \E i \in Invocations :
        /\ runs.inv[i].pc = "copied"
        /\ runs' = [runs EXCEPT
                        !.inv[i].doc = runs.fs[OutputPathOf(i)].blocks,
                        !.inv[i].pc = "opened"]
    /\ UNCHANGED <<hierarchy, counters, last_level, last_numId, lists, dicts,
                   para_id, content, sections, exhibits, log, files, raised,
                   revisions, rebuilt, final, html_cache, rendered, session,
                   calls>>

\* The walk over the opened container, doc.save(output_path) and the return
\* of changes_made
ConcurrentSave ==
    /\ \E i \in Invocations :
        /\ runs.inv[i].pc = "opened"
        /\ LET w == WalkBlocks(runs.inv[i].doc, "clean",
                               revised_lookup(ConcurrentRevisions), None)
           IN runs' = [runs EXCEPT
                           !.fs[OutputPathOf(i)] = File(w.out),
                           !.inv[i].returned = Some(w.changes_made),
                           !.inv[i].pc = "saved"]
    /\ UNCHANGED <<hierarchy, counters, last_level, last_numId, lists, dicts,
                   para_id, content, sections, exhibits, log, files, raised,
                   revisions, rebuilt, final, html_cache, rendered, session,
                   calls>>

NextConcurrent ==
    ConcurrentParse \/ ConcurrentCopy \/ ConcurrentOpen \/ ConcurrentSave

SpecConcurrent == Init /\ [][NextConcurrent]_vars

(***************************************************************************)
(* The revision routes of a session: a document is parsed, then revise,    *)
(* accept, reject and finalize are called in any order.                    *)
(***************************************************************************)
MaxSessionBlocks == 2

MaxCalls == 4

\* The blocks of the documents of these sessions
SessionParagraphs == {Para(T_body, S_normal, None)}

\* The ids the routes are called with: the first paragraph of the document
\* and an id that is not a top-level paragraph of a document of one block
SessionIds == {P_1, P_2}

\* What generate_revision gives: it raises (None), or a revised text
Generated == {None, Some(T_new), Some(T_body_sp)}

\* The faults of the export of a session: none, the markup fails and the
\* rebuild in its place writes the path, or the clean rebuild fails
SessionFaults ==
    { NoFault,
      [tracked |-> "copy", fallback |-> "none", clean |-> "none"],
      [tracked |-> "none", fallback |-> "none", clean |-> "copy"] }

\* The first item of parsed_doc['content'] that is a paragraph with the id,
\* or None
FindParagraph(parsed_content, id) ==
    LET found == {i \in 1..Len(parsed_content) :
                    /\ Get(parsed_content[i], "type", None) = "paragraph"
                    /\ Get(parsed_content[i], "id", None) = id}
    IN IF found = {} THEN None
       ELSE Some(parsed_content[CHOOSE i \in found : \A j \in found : i <= j])

\* session['revisions'][para_id] = {...}: the entry replaces the one of the
\* key
With(revs, id, revision) ==
    [k \in DOMAIN revs \cup {id} |-> IF k = id THEN revision ELSE revs[k]]

\* The keys of a dict after a key is set: a new key comes last
OrderWith(order, id) ==
    IF \E i \in 1..Len(order) : order[i] = id THEN order ELSE Append(order, id)

\* Mutant of Without: the revision stays in the session
Without_Kept(revs, id) == revs

\* del session['revisions'][para_id]
Without(revs, id) ==
    IF DOMAIN revs = {id} THEN <<>>
    ELSE [k \in DOMAIN revs \ {id} |-> revs[k]]

\* The keys of a dict after a key is deleted
OrderWithout(order, id) == SelectSeq(order, LAMBDA k : k # id)

\* A call of a route and the status of its response
Response(op, id, status) == [op |-> op, para_id |-> id, status |-> status]

Respond(op, id, status) == calls' = Append(calls, Response(op, id, status))

\* What the revision routes leave alone
Parsed == <<hierarchy, counters, last_level, last_numId, lists, dicts,
            para_id, content, sections, exhibits, log, rebuilt, html_cache,
            rendered, runs>>

\* POST /revise: 404 for an id that is no top-level paragraph, 500 where
\* generate_revision raises, else the revision is stored with accepted False
revise(id, generated) ==
    LET paragraph == FindParagraph(content, id)
    IN IF paragraph = None
       THEN Respond("revise", id, 404) /\ UNCHANGED <<revisions, session>>
       ELSE IF generated = None
       THEN Respond("revise", id, 500) /\ UNCHANGED <<revisions, session>>
       ELSE /\ revisions' = With(revisions, id,
                                 Revision(FALSE, Get(paragraph[1], "text", <<>>),
                                          generated[1]))
            /\ session' = [session EXCEPT !.order = OrderWith(@, id)]
            /\ Respond("revise", id, 200)

Revise ==
    /\ raised = None
    /\ Len(calls) < MaxCalls
    /\ \E id \in SessionIds, generated \in Generated : revise(id, generated)
    /\ UNCHANGED <<Parsed, files, raised, final>>

\* POST /accept: 404 where the session has no revision for the id, else the
\* revision is marked as accepted
accept_revision(id) ==
    IF id \notin DOMAIN revisions
    THEN Respond("accept", id, 404) /\ UNCHANGED revisions
    ELSE /\ revisions' = [revisions EXCEPT ![id].accepted = TRUE]
         /\ Respond("accept", id, 200)

Accept ==
    /\ raised = None
    /\ Len(calls) < MaxCalls
    /\ \E id \in SessionIds : accept_revision(id)
    /\ UNCHANGED <<Parsed, files, raised, final, session>>

\* POST /reject: the revision of the id is deleted, 404 where there is none
reject_revision(id) ==
    IF id \in DOMAIN revisions
    THEN /\ revisions' = Without(revisions, id)
         /\ session' = [session EXCEPT !.order = OrderWithout(@, id)]
         /\ Respond("reject", id, 200)
    ELSE Respond("reject", id, 404) /\ UNCHANGED <<revisions, session>>

Reject ==
    /\ raised = None
    /\ Len(calls) < MaxCalls
    /\ \E id \in SessionIds : reject_revision(id)
    /\ UNCHANGED <<Parsed, files, raised, final>>

\* The state after a finalize that called generate_final_documents with
\* result res: an exception of the call becomes a 500 and leaves the status
\* of the session as it was.  final keeps the call and its result.
Finalized(call, res) ==
    /\ files' = res.files
    /\ final' = Some([call |-> call, returned |-> res.returned,
                      fallback |-> res.fallback, log |-> res.log,
                      walk |-> res.walk])
    /\ session' = IF res.raised = None
                  THEN [session EXCEPT !.status = "finalized"]
                  ELSE session
    /\ Respond("finalize", None, IF res.raised = None THEN 200 ELSE 500)
    /\ UNCHANGED <<Parsed, raised, revisions>>

\* POST /finalize where no revision is accepted: 400
FinalizeNone ==
    /\ raised = None
    /\ Len(calls) < MaxCalls
    /\ {k \in DOMAIN revisions : revisions[k].accepted} = {}
    /\ Respond("finalize", None, 400)
    /\ UNCHANGED <<Parsed, raised, revisions, files, final, session>>

\* POST /finalize where a revision is accepted: generate_final_documents is
\* called with the revisions of the session
FinalizeAccepted ==
    /\ raised = None
    /\ Len(calls) < MaxCalls
    /\ {k \in DOMAIN revisions : revisions[k].accepted} # {}
    /\ \E has_redlines \in BOOLEAN, fault \in SessionFaults :
        /\ fault \in FinalFaults(has_redlines, revisions)
        /\ Finalized(FinalCall(revisions, session.order, has_redlines, fault),
                     generate_final_documents(files, OriginalPath, content,
                                              revisions, session.order,
                                              AuthorName, has_redlines, fault))

Finalize == FinalizeNone \/ FinalizeAccepted

NextSessionParagraph ==
    /\ calls = <<>>
    /\ Len(files[OriginalPath].blocks) < MaxSessionBlocks
    /\ \E block \in SessionParagraphs : ParseParagraph(block)

NextSession ==
    NextSessionParagraph \/ Revise \/ Accept \/ Reject \/ Finalize

SpecSession == Init /\ [][NextSession]_vars

(***************************************************************************)
(* Reading the result.                                                     *)
(***************************************************************************)
\* The nodes of the list object ref, in order
HierValue(ref) == [i \in 1..Len(lists[ref]) |-> dicts[lists[ref][i]]]

\* The hierarchy stamped on block i of content; the empty one before block 1
Stamped(i) == IF i = 0 THEN <<>> ELSE HierValue(content[i].section_hierarchy)

\* The tracker's counters, last level and last list id after block i
CountersAfter(i) == IF i = 0 THEN <<>> ELSE log[i].counters

LastLevelAfter(i) == IF i = 0 THEN -1 ELSE log[i].last_level

LastNumIdAfter(i) == IF i = 0 THEN None ELSE log[i].last_numId

Blocks == 1..Len(content)

IsPara(i) == content[i].type = "paragraph"

HasListStyle(i) == IsPara(i) /\ content[i].style_info.numbering # None

HasMarker(i) == IsPara(i) /\ content[i].section_number # None

\* Block i is a paragraph numbered by its list style alone
IsAuto(i) == HasListStyle(i) /\ ~HasMarker(i)

\* Block i is a paragraph for which update resolved a level and added a node
Resolved(i) == IsPara(i) /\ (HasListStyle(i) \/ HasMarker(i))

\* Block i is a plain body paragraph
IsPlain(i) ==
    /\ IsPara(i)
    /\ ~HasListStyle(i)
    /\ ~HasMarker(i)
    /\ ~content[i].style_info.is_heading

ListLevel(i) == content[i].style_info.numbering[1].level

ListId(i) == content[i].style_info.numbering[1].numId

\* The node that block i added, the last of its stamped hierarchy
NodeOf(i) == Stamped(i)[Len(Stamped(i))]

\* The counter given to the list-numbered paragraph i
CounterOf(i) == log[i].counters[ListLevel(i)]

Lbl_1 == <<"1", ".">>

Lbl_2 == <<"2", ".">>

Lbl_A == <<"A", ".">>

Lbl_B == <<"B", ".">>

(***************************************************************************)
(* Claims about the section tracker.                                       *)
(***************************************************************************)

\* C1: every paragraph stamped right after an update that resolved level L
\* has a hierarchy of length L+1 whose node levels strictly increase with
\* position.
C1_HierarchyMonotonic ==
    \A i \in Blocks :
        Resolved(i) =>
            /\ Len(Stamped(i)) = log[i].last_level + 1
            /\ \A a, b \in 1..Len(Stamped(i)) :
                   a < b => Stamped(i)[a].level < Stamped(i)[b].level

\* The nodes of hierarchy h whose level is below l, in their order
BelowLevel(h, l) ==
    LET Test(node) == node.level < l
    IN  SelectSeq(h, Test)

\* C2: after an update that resolved level L the hierarchy is the nodes of the
\* previous hierarchy whose level is below L, in their order, followed by the
\* new node.
C2_TruncateBelowLevel ==
    \A i \in Blocks :
        Resolved(i) =>
            Stamped(i) = Append(BelowLevel(Stamped(i - 1), log[i].last_level),
                                NodeOf(i))

\* C3: in one list id, the first list-numbered level-1 paragraph after a
\* list-numbered level-0 paragraph is labelled 'A.', and the indent levels
\* 0,1,1,0 give the labels '1.', 'A.', 'B.', '2.'.
C3_NumberingRestart ==
    /\ \A i, j \in Blocks :
           ( /\ i < j
             /\ IsAuto(i) /\ ListLevel(i) = 0
             /\ IsAuto(j) /\ ListLevel(j) = 1
             /\ ListId(i) = ListId(j)
             /\ \A k \in (i + 1)..(j - 1) : ~(IsAuto(k) /\ ListLevel(k) = 1) )
           => NodeOf(j).number = Lbl_A
    /\ ( /\ Len(content) = 4
         /\ \A i \in Blocks : IsAuto(i) /\ ListId(i) = ListId(1)
         /\ [i \in Blocks |-> ListLevel(i)] = <<0, 1, 1, 0>> )
       => [i \in Blocks |-> NodeOf(i).number] = <<Lbl_1, Lbl_A, Lbl_B, Lbl_2>>

\* C3 witness: the levels 0,1,0,1 of one list were parsed, so a level-0
\* paragraph advanced after a level-1 counter existed and a level-1 paragraph
\* followed.
C3_Witness ==
    /\ Len(content) = 4
    /\ \A i \in Blocks : IsAuto(i) /\ ListId(i) = ListId(1)
    /\ [i \in Blocks |-> ListLevel(i)] = <<0, 1, 0, 1>>
    /\ NodeOf(4).number = Lbl_A

\* The list-numbered paragraphs before j at the level of j
Siblings(j) == {i \in 1..(j - 1) : IsAuto(i) /\ ListLevel(i) = ListLevel(j)}

\* The list-numbered paragraphs from p to j all belong to the list of j
OneList(p, j) == \A k \in p..j : IsAuto(k) => ListId(k) = ListId(j)

\* C4 as stated: within one list id the counters of list-numbered paragraphs
\* at a level are consecutive, restarting at 1 whenever a paragraph at a
\* shallower level came in between, list-numbered or with a textual marker.
C4_RestartOnAnyShallower ==
    \A j \in Blocks :
        IsAuto(j) =>
            CounterOf(j) =
                IF /\ Siblings(j) # {}
                   /\ OneList(Max(Siblings(j)), j)
                   /\ \A k \in (Max(Siblings(j)) + 1)..(j - 1) :
                          ~(Resolved(k) /\ log[k].last_level < ListLevel(j))
                THEN CounterOf(Max(Siblings(j))) + 1
                ELSE 1

\* C4 amended: within one list id the counters of list-numbered paragraphs at
\* a level are consecutive, restarting at 1 exactly when a list-numbered
\* paragraph at a shallower level came in between; a shallower paragraph with
\* a textual marker does not restart them.
C4_RestartOnShallowerListItem ==
    \A j \in Blocks :
        IsAuto(j) =>
            CounterOf(j) =
                IF /\ Siblings(j) # {}
                   /\ OneList(Max(Siblings(j)), j)
                   /\ \A k \in (Max(Siblings(j)) + 1)..(j - 1) :
                          ~(IsAuto(k) /\ ListLevel(k) < ListLevel(j))
                THEN CounterOf(Max(Siblings(j))) + 1
                ELSE 1

\* C4 witness: the levels 1,1,0,1 of one list got the counters 1,2,1,1.
C4_Witness ==
    /\ Len(content) = 4
    /\ \A i \in Blocks : IsAuto(i) /\ ListId(i) = ListId(1)
    /\ [i \in Blocks |-> ListLevel(i)] = <<1, 1, 0, 1>>
    /\ [i \in Blocks |-> CounterOf(i)] = <<1, 2, 1, 1>>

\* The list-numbered paragraphs before j
EarlierAuto(j) == {i \in 1..(j - 1) : IsAuto(i)}

\* C5: a list-numbered paragraph whose list id differs from that of the
\* previous list-numbered paragraph gets counter 1, all other counters being
\* cleared.
C5_ResetOnListChange ==
    \A j \in Blocks :
        ( /\ IsAuto(j)
          /\ EarlierAuto(j) # {}
          /\ ListId(Max(EarlierAuto(j))) # ListId(j) )
        => log[j].counters = (ListLevel(j) :> 1)

\* C5 witness: the document left a list and came back to it.
C5_Witness ==
    \E i, k, j \in Blocks :
        /\ i < k /\ k < j
        /\ IsAuto(i) /\ IsAuto(k) /\ IsAuto(j)
        /\ ListId(i) = ListId(j)
        /\ ListId(k) # ListId(j)
        /\ Max(EarlierAuto(j)) = k
        /\ CounterOf(j) = 1

\* C6: a paragraph with a textual marker and a list-style reference gets the
\* textual marker as its label, and leaves the counters and the last list id
\* as they were.
C6_ExplicitTextWins ==
    \A i \in Blocks :
        (HasMarker(i) /\ HasListStyle(i)) =>
            /\ NodeOf(i).number = content[i].section_number[1]
            /\ StartsWith(content[i].text, NodeOf(i).number)
            /\ CountersAfter(i) = CountersAfter(i - 1)
            /\ LastNumIdAfter(i) = LastNumIdAfter(i - 1)

\* C6 witness: such a paragraph came while counters were running for another
\* list id.
C6_Witness ==
    \E i \in Blocks :
        /\ HasMarker(i) /\ HasListStyle(i)
        /\ CountersAfter(i - 1) # <<>>
        /\ LastNumIdAfter(i - 1) # Some(ListId(i))

\* The lowercase roman numeral of n < 4000, digit by digit
RomanNumeral(n) ==
    LET thousands == << <<>>, <<"m">>, <<"m", "m">>, <<"m", "m", "m">> >>
        hundreds  == << <<>>, <<"c">>, <<"c", "c">>, <<"c", "c", "c">>, <<"c", "d">>,
                        <<"d">>, <<"d", "c">>, <<"d", "c", "c">>,
                        <<"d", "c", "c", "c">>, <<"c", "m">> >>
        tens      == << <<>>, <<"x">>, <<"x", "x">>, <<"x", "x", "x">>, <<"x", "l">>,
                        <<"l">>, <<"l", "x">>, <<"l", "x", "x">>,
                        <<"l", "x", "x", "x">>, <<"x", "c">> >>
        units     == << <<>>, <<"i">>, <<"i", "i">>, <<"i", "i", "i">>, <<"i", "v">>,
                        <<"v">>, <<"v", "i">>, <<"v", "i", "i">>,
                        <<"v", "i", "i", "i">>, <<"i", "x">> >>
    IN  thousands[(n \div 1000) + 1] \o hundreds[((n \div 100) % 10) + 1]
        \o tens[((n \div 10) % 10) + 1] \o units[(n % 10) + 1]

\* The label the claim gives to counter n at indent level l
ExpectedLabel(l, n) ==
    CASE l = 0 -> Str(n) \o <<".">>
      [] l = 1 /\ n <= 26 -> <<UpperSeq[n], ".">>
      [] l = 1 /\ n > 26 -> <<"A">> \o Str(n - 26) \o <<".">>
      [] l = 2 -> <<"(">> \o RomanNumeral(n) \o <<")">>
      [] OTHER -> <<"(">> \o Str(n) \o <<")">>

\* C7: the label generated for counter n at indent level L is n and '.' at
\* level 0, the n-th uppercase letter and '.' (from 27 on 'A', n-26 and '.')
\* at level 1, the lowercase roman numeral in parentheses at level 2 and n in
\* parentheses at deeper levels.
C7_GeneratedLabel ==
    \A i \in Blocks :
        IsAuto(i) => NodeOf(i).number = ExpectedLabel(ListLevel(i), CounterOf(i))

\* C7 witness: the 27th paragraph at level 1 was labelled 'A1.'.
C7_Witness ==
    \E i \in Blocks :
        /\ IsAuto(i) /\ ListLevel(i) = 1 /\ CounterOf(i) = 27
        /\ NodeOf(i).number = <<"A", "1", ".">>

\* A marker whose format gives no level: a bare letter and '.', or digits in
\* parentheses
Uninferable(s) ==
    \/ Len(s) = 2 /\ s[1] \in Letter /\ s[2] = "."
    \/ /\ Len(s) >= 3 /\ s[1] = "(" /\ s[Len(s)] = ")"
       /\ \A k \in 2..(Len(s) - 1) : s[k] \in Digit

\* C8: a textual marker of no inferable level on a paragraph without list
\* style gets the level of the previous node plus one, and level 0 when no
\* node was recorded before.
C8_UninferableLevel ==
    \A i \in Blocks :
        ( /\ HasMarker(i) /\ ~HasListStyle(i)
          /\ Uninferable(content[i].section_number[1]) )
        => NodeOf(i).level =
               IF Stamped(i - 1) = <<>> THEN 0 ELSE NodeOf(i - 1).level + 1

\* C8 witness: 'a.' came right after a level-2 node and got level 3.
C8_Witness ==
    \E i \in Blocks :
        /\ i > 1
        /\ content[i].section_number = Some(<<"a", ".">>)
        /\ NodeOf(i - 1).level = 2
        /\ NodeOf(i).level = 3

\* The paragraphs before block i
EarlierParas(i) == {k \in 1..(i - 1) : IsPara(k)}

\* C9: a plain body paragraph is not offered to the tracker; it carries the
\* section_ref and hierarchy of the paragraph before it, and the tracker's
\* hierarchy, counters, last level and last list id stay as they were.
C9_PlainParagraphInherits ==
    \A i \in Blocks :
        IsPlain(i) =>
            /\ ~log[i].called
            /\ Stamped(i) = Stamped(i - 1)
            /\ CountersAfter(i) = CountersAfter(i - 1)
            /\ LastLevelAfter(i) = LastLevelAfter(i - 1)
            /\ LastNumIdAfter(i) = LastNumIdAfter(i - 1)
            /\ EarlierParas(i) # {} =>
                   content[i].section_ref = content[Max(EarlierParas(i))].section_ref

\* C9 witness: a plain paragraph followed a paragraph inside a section.
C9_Witness ==
    \E i \in Blocks :
        /\ i > 1
        /\ IsPlain(i)
        /\ IsPara(i - 1)
        /\ Stamped(i - 1) # <<>>
        /\ CountersAfter(i - 1) # <<>>

\* Everything stamped on block i: section_ref and hierarchy of a paragraph;
\* the hierarchy of a table and of each of its cell paragraphs
StampedBlock(i) ==
    IF IsPara(i)
    THEN <<content[i].section_ref, Stamped(i)>>
    ELSE <<Stamped(i),
           [r \in 1..Len(content[i].rows) |->
              [c \in 1..Len(content[i].rows[r]) |->
                 [k \in 1..Len(content[i].rows[r][c].paragraphs) |->
                    HierValue(content[i].rows[r][c].paragraphs[k].section_hierarchy)]]]>>

\* The hierarchy of the k-th sections-index entry
StampedSection(k) == HierValue(sections[k].hierarchy)

\* C10: no step changes the section_ref or section_hierarchy already stamped
\* on a paragraph, a table, a cell paragraph or a sections-index entry.
C10_StampedIsFrozen ==
    [][ /\ \A i \in Blocks : StampedBlock(i)' = StampedBlock(i)
        /\ \A k \in 1..Len(sections) : StampedSection(k)' = StampedSection(k) ]_vars

\* C10 witness: after a paragraph in a section, a table and a sections-index
\* entry were stamped, an update replaced the node at the level of the
\* stamped one.
C10_Witness ==
    /\ Len(content) >= 3
    /\ Len(sections) >= 1
    /\ IsPara(1) /\ Stamped(1) # <<>>
    /\ ~IsPara(2)
    /\ Resolved(3)
    /\ NodeOf(3).level = NodeOf(1).level
    /\ NodeOf(3).number # NodeOf(1).number


(***************************************************************************)
(* Claims about section references and paragraph ids.                      *)
(***************************************************************************)

\* A label without the dots that end it
RECURSIVE NoTrailingDots(_)
NoTrailingDots(s) ==
    IF s # <<>> /\ s[Len(s)] = "."
    THEN NoTrailingDots(SubSeq(s, 1, Len(s) - 1))
    ELSE s

\* The labels of the nodes h[1..n], dots dropped, written one after another
RECURSIVE RefOfPrefix(_, _)
RefOfPrefix(h, n) ==
    IF n = 0 THEN <<>>
    ELSE RefOfPrefix(h, n - 1) \o NoTrailingDots(h[n].number)

Ref_2A1 == <<"2", "A", "(", "1", ")">>

HasLevel0(i) == Stamped(i) # <<>> /\ Stamped(i)[1].level = 0

\* The key of the level-0 label of block i in a natural sort: its number
Level0Key(i) == ParseInt(NoTrailingDots(Stamped(i)[1].number))

\* The level-0 label decreases from paragraph j-1 to paragraph j
Decreases(j) ==
    /\ j - 1 \in Blocks /\ j \in Blocks
    /\ IsPara(j - 1) /\ IsPara(j)
    /\ HasLevel0(j - 1) /\ HasLevel0(j)
    /\ Level0Key(j) < Level0Key(j - 1)

\* The paragraph that set the level-0 node in force at block i
Level0Origin(i) ==
    CHOOSE k \in 1..i :
        /\ Resolved(k) /\ NodeOf(k).level = 0
        /\ \A m \in (k + 1)..i : ~(Resolved(m) /\ NodeOf(m).level = 0)

\* C12 as stated: the level-0 label of section_ref decreases from one
\* paragraph to the next only at a paragraph that carries an explicit textual
\* marker.
C12_DecreaseOnlyAtMarker ==
    \A j \in Blocks : Decreases(j) => HasMarker(j)

\* The counters restart at block m: a list-numbered paragraph whose list id
\* is not the tracker's last list id
Restarts(m) == IsAuto(m) /\ Some(ListId(m)) # LastNumIdAfter(m - 1)

\* C12 amended: the level-0 label decreases from one paragraph to the next
\* only at a paragraph that carries an explicit textual marker, or at a
\* list-numbered paragraph when the previous level-0 label was set by an
\* explicit textual marker (the counters ignore textual markers) or the list
\* id has changed since the paragraph that set it (the counters restart).
C12_DecreaseOnlyAtMarkerOrRestart ==
    \A j \in Blocks :
        Decreases(j) =>
            \/ HasMarker(j)
            \/ /\ IsAuto(j)
               /\ \/ HasMarker(Level0Origin(j - 1))
                  \/ \E m \in (Level0Origin(j - 1) + 1)..j : Restarts(m)

\* C12 witness: the label grows along list-numbered paragraphs, a textual
\* marker jumps backward, and a later list-numbered paragraph of the same list
\* goes on counting
C12_Witness ==
    \E i, j \in Blocks :
        /\ i + 1 < j
        /\ IsAuto(i) /\ IsAuto(i + 1) /\ HasLevel0(i)
        /\ Level0Key(i) < Level0Key(i + 1)
        /\ Decreases(j) /\ HasMarker(j)

\* The ids of the paragraphs of the cells cs[1..n], in order
RECURSIVE IdsOfCells(_, _)
IdsOfCells(cs, n) ==
    IF n = 0 THEN <<>>
    ELSE IdsOfCells(cs, n - 1)
         \o [k \in 1..Len(cs[n].paragraphs) |-> cs[n].paragraphs[k].id]

\* The ids of the paragraphs of the rows rs[1..n], row after row
RECURSIVE IdsOfRows(_, _)
IdsOfRows(rs, n) ==
    IF n = 0 THEN <<>>
    ELSE IdsOfRows(rs, n - 1) \o IdsOfCells(rs[n], Len(rs[n]))

\* The paragraph ids of the blocks content[1..n] in document order
RECURSIVE IssuedIds(_)
IssuedIds(n) ==
    IF n = 0 THEN <<>>
    ELSE IssuedIds(n - 1)
         \o (IF IsPara(n) THEN <<content[n].id>>
             ELSE IdsOfRows(content[n].rows, Len(content[n].rows)))

P_ == <<"p", "_">>

\* C13: the k-th paragraph met in document order, top-level or in a table
\* cell (cells row-major), has the id p_k, and the counter stands at the
\* number of paragraphs met.
C13_GlobalIdCounter ==
    /\ \A k \in 1..Len(IssuedIds(Len(content))) :
           IssuedIds(Len(content))[k] = P_ \o Str(k)
    /\ para_id = Len(IssuedIds(Len(content)))

\* C13 witness: a paragraph, a table of two rows, a paragraph, a table
C13_Witness ==
    /\ Len(content) = 4
    /\ IsPara(1) /\ ~IsPara(2) /\ IsPara(3) /\ ~IsPara(4)
    /\ Len(content[2].rows) = 2
    /\ content[3].id = P_ \o Str(6)

\* The step parses a table block
TableStep ==
    /\ Len(content') = Len(content) + 1
    /\ content'[Len(content')].type = "table"

\* The hierarchy references stamped on the cell paragraphs of a table entry
CellRefs(t) ==
    UNION { UNION { { t.rows[r][c].paragraphs[k].section_hierarchy :
                        k \in 1..Len(t.rows[r][c].paragraphs) } :
                    c \in 1..Len(t.rows[r]) } :
            r \in 1..Len(t.rows) }

\* C15: a step that parses a table leaves the tracker's hierarchy, counters,
\* last level and last list id as they were, and stamps the table and every
\* one of its cell paragraphs with the hierarchy in force before the step.
C15_TableLeavesTracker ==
    [][ TableStep =>
          /\ HierValue(hierarchy)' = HierValue(hierarchy)
          /\ counters' = counters
          /\ last_level' = last_level
          /\ last_numId' = last_numId
          /\ Stamped(Len(content))' = HierValue(hierarchy)
          /\ \A ref \in CellRefs(content'[Len(content')]) :
                 HierValue(ref)' = HierValue(hierarchy) ]_vars

\* C15 witness: a table met inside a section, with a cell paragraph that
\* carries a numbering marker, followed by a paragraph that adds a node
C15_Witness ==
    \E i \in Blocks :
        /\ i > 1 /\ i < Len(content)
        /\ ~IsPara(i)
        /\ Stamped(i - 1) # <<>>
        /\ \E r \in 1..Len(content[i].rows) :
               \E c \in 1..Len(content[i].rows[r]) :
                   \E k \in 1..Len(content[i].rows[r][c].paragraphs) :
                       content[i].rows[r][c].paragraphs[k].section_number # None
        /\ Resolved(i + 1)

\* The blocks of the container read so far
BlocksRead == files[OriginalPath].blocks

\* C16: parse_document never aborts: every block read has its entry in the
\* model, and the entry of a paragraph whose indent level is not a number
\* has a null section_ref.
C16_MalformedParagraphIncluded ==
    /\ raised = None
    /\ Len(content) = Len(BlocksRead)
    /\ \A i \in Blocks :
           (IsPara(i) /\ Raises(BlocksRead[i])) => content[i].section_ref = None

(***************************************************************************)
(* Claims about rebuilding.                                                *)
(***************************************************************************)

\* The last rebuild call, its result and the ids its walk derived
LastCall == rebuilt[1].call

LastWalk == rebuilt[1].walk

\* The id parse_document issued for the paragraph at a position: block i,
\* or row r, cell c, paragraph k of the table that is block i
ParsedIdAt(at) ==
    IF Len(at) = 1 THEN content[at[1]].id
    ELSE content[at[1]].rows[at[2]][at[3]].paragraphs[at[4]].id

\* C14: the id that the walk of a rebuild, clean or tracked, derives for a
\* paragraph position is the id parse_document issued for that position,
\* and a rebuild that ends without exception has walked every paragraph.
C14_WalkIdsAreParsedIds ==
    rebuilt # None =>
        /\ \A n \in 1..Len(LastWalk) : LastWalk[n].key = ParsedIdAt(LastWalk[n].at)
        /\ raised = None => Len(LastWalk) = para_id

\* C14 witness: a tracked rebuild of a document that starts with a table
\* has walked the cells of the table and the paragraph after it; so has a
\* clean rebuild before it
C14_Witness ==
    /\ rebuilt # None
    /\ LastCall.mode = "tracked"
    /\ LastCall.output_path = "out2"
    /\ raised = None
    /\ Len(content) = 2 /\ ~IsPara(1) /\ IsPara(2)
    /\ Len(LastWalk) = 5
    /\ LastWalk[4].at = <<1, 2, 2, 1>>
    /\ LastWalk[5].at = <<2>> /\ LastWalk[5].key = P_ \o Str(5)

\* A step that is a rebuild call
RebuildStep == rebuilt' # rebuilt

\* C17: a rebuild call, clean or tracked, ended by a return or by an
\* exception, leaves the container it was given as the original, the
\* uploaded container and the parsed model (content, sections, exhibits)
\* as they were.
C17_RebuildLeavesOriginal ==
    [][RebuildStep =>
        /\ files'[LastCall'.original_path] = files[LastCall'.original_path]
        /\ files'[OriginalPath] = files[OriginalPath]
        /\ <<content, sections, exhibits>>' = <<content, sections, exhibits>>]_vars

\* C17 witness: a clean rebuild has written an output that differs from the
\* original, and a tracked rebuild after it has failed while saving
C17_Witness ==
    /\ rebuilt # None
    /\ LastCall.mode = "tracked"
    /\ LastCall.original_path = OriginalPath
    /\ raised # None
    /\ files["out1"].state = "ok"
    /\ files["out1"] # files[OriginalPath]
    /\ files["out2"].state = "corrupt"

\* The paragraph at a position before and after the last rebuild
Before(at) == ParagraphAt(files[LastCall.original_path].blocks, at)

After(at) == ParagraphAt(files[LastCall.output_path].blocks, at)

\* The revision of the session for a key is accepted
Accepted(key) == key \in DOMAIN revisions /\ revisions[key].accepted

\* The accepted revision for a key brings a text that is not already there:
\* in clean mode a text other than the paragraph's, in tracked mode a text
\* other than the revision's original
BringsChange(key, paragraph) ==
    /\ Accepted(key)
    /\ revisions[key].revised # Text(paragraph)
    /\ revisions[key].revised # Strip(Text(paragraph))
    /\ revisions[key].revised # revisions[key].original

\* The paragraph carries a revision mark
Marked(paragraph) ==
    \E i \in 1..Len(paragraph.children) : paragraph.children[i].kind # "r"

\* The last rebuild has applied the revision for a key to the paragraph at a
\* position: the clean text is the revised text, the tracked paragraph is
\* rewritten with marks
Applied(key, at) ==
    IF LastCall.mode = "clean" THEN Text(After(at)) = revisions[key].revised
    ELSE After(at) # Before(at) /\ Marked(After(at))

\* C18: a rebuild that the input and output system does not fail ends
\* without exception whatever the revision set holds; the paragraphs it
\* changed have an accepted revision under their id, so a revision that is
\* not accepted or has an id of no paragraph changes nothing; and every
\* accepted revision for a paragraph of the document that brings a change is
\* applied.
C18_OnlyAcceptedKnownApplied ==
    rebuilt # None =>
        /\ (LastCall.fault = "none" /\ files[LastCall.original_path].state = "ok")
               => raised = None
        /\ raised = None =>
              \A n \in 1..Len(LastWalk) :
                  /\ After(LastWalk[n].at) # Before(LastWalk[n].at)
                        => Accepted(LastWalk[n].key)
                  /\ BringsChange(LastWalk[n].key, Before(LastWalk[n].at))
                        => Applied(LastWalk[n].key, LastWalk[n].at)

\* C18 witness: a tracked rebuild with an accepted revision for the first
\* paragraph and one for an id of no paragraph has marked the first
\* paragraph and ended without exception
C18_Witness ==
    /\ rebuilt # None
    /\ raised = None
    /\ LastCall.mode = "tracked"
    /\ LastCall.original_path = OriginalPath
    /\ DOMAIN revisions = {P_1, UnknownId}
    /\ Len(LastWalk) = 2
    /\ BringsChange(P_1, Before(<<1>>))
    /\ Marked(After(<<1>>))

\* C18 witness in clean mode: a revision that is not accepted and an
\* accepted one in the same set; the accepted one alone is applied
C18_WitnessClean ==
    /\ rebuilt # None
    /\ raised = None
    /\ LastCall.mode = "clean"
    /\ LastCall.original_path = OriginalPath
    /\ DOMAIN revisions = {P_1, P_2}
    /\ ~revisions[P_1].accepted /\ revisions[P_2].accepted
    /\ Len(LastWalk) = 2
    /\ After(<<1>>) = Before(<<1>>)
    /\ Text(After(<<2>>)) = T_new

\* The positions of the last walk whose paragraph has another text in the
\* output than in the original
TextDiffers ==
    {n \in 1..Len(LastWalk) :
        Text(After(LastWalk[n].at)) # Text(Before(LastWalk[n].at))}

\* The positions of the last walk whose paragraph was rewritten
Rewritten == {n \in 1..Len(LastWalk) : LastWalk[n].rewritten}

\* C19: after a clean rebuild that returned, every rewritten paragraph has
\* an accepted revision whose new text differs from the text the paragraph
\* had, and the returned count is the number of paragraphs whose text
\* differs between the original and the output.
C19_CleanCountIsDifference ==
    (rebuilt # None /\ LastCall.mode = "clean" /\ raised = None) =>
        /\ \A n \in Rewritten :
              /\ Accepted(LastWalk[n].key)
              /\ revisions[LastWalk[n].key].revised # Text(Before(LastWalk[n].at))
        /\ rebuilt[1].returned = Some(Cardinality(TextDiffers))

\* What the code keeps of C19: a paragraph is rewritten only if the new
\* text differs from its stripped text, and the returned count is the
\* number of rewritten paragraphs.
C19_CleanCountIsRewrites ==
    (rebuilt # None /\ LastCall.mode = "clean" /\ raised = None) =>
        /\ \A n \in Rewritten :
              /\ Accepted(LastWalk[n].key)
              /\ Strip(Text(Before(LastWalk[n].at))) # revisions[LastWalk[n].key].revised
        /\ rebuilt[1].returned = Some(Cardinality(Rewritten))

\* A clean rebuild has rewritten a paragraph with the text it had and
\* counted it
C19_RewrittenWithSameText ==
    /\ rebuilt # None /\ LastCall.mode = "clean" /\ raised = None
    /\ LastCall.original_path = OriginalPath
    /\ rebuilt[1].returned = Some(1)
    /\ TextDiffers = {}

\* The paragraph a after the clean replacement of the paragraph b, which had
\* runs, with new_text
Replaced(a, b, new_text) ==
    /\ Text(a) = new_text
    /\ Runs(a)[1].text = new_text
    /\ Runs(a)[1].fmt = Runs(b)[1].fmt
    /\ \A i \in 2..Len(Runs(a)) : Runs(a)[i].text = <<>>

\* C20: after a clean rebuild, a rewritten paragraph that had runs has
\* exactly the new text, carried by its first run; the bold, italic,
\* underline, font name and font size of that run are those it had before,
\* and no run after the first carries text.
C20_CleanReplacementKeepsFirstRun ==
    (rebuilt # None /\ LastCall.mode = "clean" /\ raised = None) =>
        \A n \in Rewritten :
            Runs(Before(LastWalk[n].at)) # <<>> =>
                Replaced(After(LastWalk[n].at), Before(LastWalk[n].at),
                         revisions[LastWalk[n].key].revised)

\* C20 witness: the paragraph in two runs, the first of them bold and in
\* Arial, was replaced by a clean rebuild
C20_Witness ==
    /\ rebuilt # None /\ LastCall.mode = "clean" /\ raised = None
    /\ LastCall.original_path = OriginalPath
    /\ Len(LastWalk) >= 1 /\ LastWalk[1].rewritten
    /\ Before(<<1>>) = P_two_runs
    /\ Len(Runs(After(<<1>>))) = 2
    /\ Runs(After(<<1>>))[1] = Run(T_new, F_bold)
    /\ Runs(After(<<1>>))[2] = Run(<<>>, F_plain)

\* No revision of the session is accepted: the set is empty, or holds only
\* revisions that are not accepted
NoneAccepted == \A para_key \in DOMAIN revisions : ~revisions[para_key].accepted

\* C21: a rebuild, clean or tracked, with no accepted revision, from a
\* container that can be read and without input or output fault, ends
\* without exception and has written the output; the walk went through
\* every paragraph and rewrote none, every paragraph of the output has the
\* text it has in the original, and the clean rebuild returns 0.
C21_NoOpRoundTrip ==
    (/\ rebuilt # None
     /\ NoneAccepted
     /\ LastCall.fault = "none"
     /\ files[LastCall.original_path].state = "ok") =>
        /\ raised = None
        /\ files[LastCall.output_path].state = "ok"
        /\ Len(LastWalk) = para_id
        /\ Rewritten = {}
        /\ TextDiffers = {}
        /\ LastCall.mode = "clean" => rebuilt[1].returned = Some(0)

\* C21 witness: a tracked rebuild with a revision that is not accepted
\* has written the second output for a document of a table and a paragraph
C21_Witness ==
    /\ rebuilt # None
    /\ LastCall.mode = "tracked"
    /\ LastCall.original_path = OriginalPath
    /\ LastCall.output_path = "out2"
    /\ LastCall.fault = "none"
    /\ DOMAIN revisions = {P_1}
    /\ NoneAccepted
    /\ files["out2"].state = "ok"
    /\ Len(LastWalk) = 5

\* C21 witness for the empty set in clean mode
C21_WitnessEmpty ==
    /\ rebuilt # None
    /\ LastCall.mode = "clean"
    /\ LastCall.fault = "none"
    /\ DOMAIN revisions = {}
    /\ files[LastCall.output_path].state = "ok"
    /\ rebuilt[1].returned = Some(0)
    /\ Len(LastWalk) = 2

\* The rebuild call recorded in r was a clean rebuild of the uploaded
\* container that returned
CleanOfOriginal(r) ==
    /\ r # None
    /\ r[1].call.mode = "clean"
    /\ r[1].call.original_path = OriginalPath
    /\ r[1].returned # None

\* C22: when a clean rebuild of the uploaded container that returned is
\* followed by another with the same revision set, the second output is
\* the same as the first (the same blocks, with the same texts and run
\* formats) and the same count is returned.
C22_CleanIdempotent ==
    [][(/\ RebuildStep
        /\ CleanOfOriginal(rebuilt) /\ CleanOfOriginal(rebuilt')
        /\ revisions' = revisions) =>
            /\ files'[rebuilt'[1].call.output_path] = files[rebuilt[1].call.output_path]
            /\ rebuilt'[1].returned = rebuilt[1].returned]_vars

\* C22 witness: two outputs of the uploaded container, the same and other
\* than the original, the second by a clean rebuild that returned 1
C22_Witness ==
    /\ CleanOfOriginal(rebuilt)
    /\ LastCall.output_path = "out2"
    /\ rebuilt[1].returned = Some(1)
    /\ files["out1"].state = "ok"
    /\ files["out2"] = files["out1"]
    /\ files["out2"] # files[OriginalPath]

\* The text of the children of a paragraph whose kind is one of kinds, one
\* after another
TextOf(paragraph, kinds) ==
    Join([i \in 1..Len(SelectSeq(paragraph.children, LAMBDA e : e.kind \in kinds)) |->
             SelectSeq(paragraph.children, LAMBDA e : e.kind \in kinds)[i].text])

\* The paragraph reads as new_text with the insertions taken and the
\* deletions dropped, and as original_text the other way round
Reconstructs(paragraph, original_text, new_text) ==
    /\ TextOf(paragraph, {"r", "ins"}) = new_text
    /\ TextOf(paragraph, {"r", "del"}) = original_text

\* The positions of the last walk, a tracked one that was saved, whose
\* paragraph was rewritten
TrackedRewritten ==
    IF rebuilt # None /\ LastCall.mode = "tracked" /\ raised = None
    THEN Rewritten ELSE {}

\* C23: every paragraph rewritten by a tracked rebuild reads as the
\* revision's new text through its unchanged and inserted runs, and as the
\* revision's original text through its unchanged and deleted runs.
C23_TrackedReconstructs ==
    \A n \in TrackedRewritten :
        Reconstructs(After(LastWalk[n].at), revisions[LastWalk[n].key].original,
                     revisions[LastWalk[n].key].revised)

\* What the code keeps of C23: the same, for the paragraphs that carried
\* no revision mark before the rebuild.
C23_TrackedReconstructsUnmarked ==
    \A n \in TrackedRewritten :
        ~Marked(Before(LastWalk[n].at)) =>
            Reconstructs(After(LastWalk[n].at), revisions[LastWalk[n].key].original,
                         revisions[LastWalk[n].key].revised)

\* A tracked rebuild has rewritten a paragraph without marks into unchanged
\* and inserted runs
C23_UnmarkedRewritten ==
    /\ 1 \in TrackedRewritten
    /\ ~Marked(Before(LastWalk[1].at))
    /\ Len(After(LastWalk[1].at).children) = 2
    /\ After(LastWalk[1].at).children[1].kind = "r"
    /\ After(LastWalk[1].at).children[2].kind = "ins"

\* A tracked rebuild has rewritten a paragraph that carried marks
C23_MarkedRewritten ==
    /\ 1 \in TrackedRewritten
    /\ Marked(Before(LastWalk[1].at))
    /\ TextOf(After(LastWalk[1].at), {"r", "ins"}) = T_new \o T_new

\* The kind of element that carries a piece of a diff: a deleted span is in
\* a deletion marker, an inserted span in an insertion marker, an unchanged
\* span in a plain run
KindOf(op) == IF op = -1 THEN "del" ELSE IF op = 1 THEN "ins" ELSE "r"

\* The element e carries the piece d of a diff: its text, in a plain run
\* outside any marker if unchanged, otherwise in a marker of its kind with
\* the author and a date
Carries(e, d, author_name) ==
    /\ e.kind = KindOf(d.op)
    /\ e.text = d.text
    /\ IF d.op = 0 THEN e.mark = None
       ELSE /\ e.mark # None
            /\ e.mark[1].author = author_name
            /\ e.mark[1].date = RevDate

\* The last elements of the paragraph carry, in order, the pieces of diffs
Emits(paragraph, diffs, author_name) ==
    /\ Len(paragraph.children) >= Len(diffs)
    /\ \A i \in 1..Len(diffs) :
          Carries(paragraph.children[Len(paragraph.children) - Len(diffs) + i],
                  diffs[i], author_name)

\* C24: a paragraph rewritten by a tracked rebuild ends with one element
\* for each piece of the difference between the revision's original and
\* revised text: a deleted piece in a deletion marker and an inserted piece
\* in an insertion marker, each with the author name the caller gave and
\* a date, an unchanged piece in a plain run outside any marker; and no
\* plain run of the paragraph carries a mark.
C24_TrackedMarkers ==
    \A n \in TrackedRewritten :
        /\ Emits(After(LastWalk[n].at),
                 diff_main(revisions[LastWalk[n].key].original,
                           revisions[LastWalk[n].key].revised),
                 AuthorName)
        /\ \A i \in 1..Len(After(LastWalk[n].at).children) :
              After(LastWalk[n].at).children[i].kind = "r"
                  <=> After(LastWalk[n].at).children[i].mark = None

\* C24 witness: a tracked rebuild has rewritten the paragraph in two runs
\* into a deletion and an insertion by the author
C24_Witness ==
    /\ 1 \in TrackedRewritten
    /\ Before(LastWalk[1].at) = P_two_runs
    /\ Len(After(LastWalk[1].at).children) = 2
    /\ After(LastWalk[1].at).children[1].kind = "del"
    /\ After(LastWalk[1].at).children[1].text = T_body
    /\ After(LastWalk[1].at).children[1].mark[1].author = AuthorName
    /\ After(LastWalk[1].at).children[2].kind = "ins"
    /\ After(LastWalk[1].at).children[2].text = T_new

\* The elements a tracked rewrite appended to the paragraph at a position
\* for the revision under key: the last ones, one for each piece of the diff
Emitted(at, para_key) ==
    SubSeq(After(at).children,
           Len(After(at).children)
               - Len(diff_main(revisions[para_key].original,
                               revisions[para_key].revised)) + 1,
           Len(After(at).children))

\* C25: every run emitted for a paragraph rewritten by a tracked rebuild
\* has the bold, italic, underline, font name and font size that the first
\* run of the paragraph had before, an explicitly set off value included.
C25_TrackedRunsKeepFormat ==
    \A n \in TrackedRewritten :
        Runs(Before(LastWalk[n].at)) # <<>> =>
            \A i \in 1..Len(Emitted(LastWalk[n].at, LastWalk[n].key)) :
                Emitted(LastWalk[n].at, LastWalk[n].key)[i].fmt
                    = Runs(Before(LastWalk[n].at))[1].fmt

\* A value of the format is explicitly set off
SetOff(fmt) ==
    \/ fmt.bold = Some(FALSE)
    \/ fmt.italic = Some(FALSE)
    \/ fmt.underline = Some(FALSE)

\* What the code keeps of C25: the same, for a first run none of whose
\* bold, italic and underline is explicitly set off.
C25_TrackedRunsKeepFormatUnlessOff ==
    \A n \in TrackedRewritten :
        (/\ Runs(Before(LastWalk[n].at)) # <<>>
         /\ ~SetOff(Runs(Before(LastWalk[n].at))[1].fmt)) =>
            \A i \in 1..Len(Emitted(LastWalk[n].at, LastWalk[n].key)) :
                Emitted(LastWalk[n].at, LastWalk[n].key)[i].fmt
                    = Runs(Before(LastWalk[n].at))[1].fmt

\* A tracked rebuild has rewritten the paragraph whose first run is bold
\* with italic set off: the emitted runs are bold, their italic is not set
C25_OffLost ==
    /\ 1 \in TrackedRewritten
    /\ Before(LastWalk[1].at) = P_two_runs
    /\ Emitted(LastWalk[1].at, LastWalk[1].key)[1].fmt.bold = Some(TRUE)
    /\ Emitted(LastWalk[1].at, LastWalk[1].key)[1].fmt.italic = None


(***************************************************************************)
(* The export: generate_final_documents.                                   *)
(***************************************************************************)
LastFinal == final[1]

\* The export returned and its track changes document was written by
\* rebuild_document because there was no markup library or because the markup
\* raised
FellBack ==
    /\ final # None
    /\ LastFinal.returned # None
    /\ LastFinal.fallback \in {Some("unavailable"), Some("raised")}

\* What the same call returns where the markup library is there and the
\* markup call ends without a fault
Attributed ==
    generate_final_documents(
        files, OriginalPath, content, revisions, LastFinal.call.order, AuthorName,
        TRUE, [tracked |-> "none", fallback |-> "none", clean |-> "none"])

\* C26: whenever the track changes document of an export was written by the
\* clean replacement in place of the markup (no markup library, or the markup
\* raised), a log record was written and the returned value differs from the
\* one the same export returns when the markup wrote the document.
C26_FallbackReported ==
    FellBack =>
        /\ LastFinal.log # <<>>
        /\ (Attributed.fallback = None => Attributed.returned # Some(LastFinal.returned[1]))


\* C27: when a rebuild ends with an exception, the exception reaches the
\* caller and the destination path, which held nothing before the call,
\* holds nothing after it: neither a partly written container nor the
\* duplicate of the original that the revisions were not yet written to.
C27_NoPartialOutput ==
    rebuilt # None /\ LastCall.fault # "none" =>
        /\ raised # None
        /\ files[LastCall.output_path] = NoFile


(***************************************************************************)
(* The preview.                                                            *)
(***************************************************************************)
LastRender == rendered[1]

\* The html of the container that was at the path when it was rendered
CurrentHtml ==
    Injected(add_preview_wrapper(docx_to_html(LastRender.source.blocks)),
             LastRender.paragraph_ids)

\* C28: a call of render_document_html that returns, returns the html of the
\* container that is at the path at the call, whatever was rendered and
\* cached for the path before.
C28_CacheNeverStale ==
    rendered # None /\ LastRender.raised = None =>
        /\ LastRender.source.state = "ok"
        /\ LastRender.html = Some(CurrentHtml)


(***************************************************************************)
(* The paragraph of the closing date.                                      *)
(***************************************************************************)
ClosingDate == <<"C", "l", "o", "s", "i", "n", "g", " ", "D", "a", "t", "e", ".">>

\* The paragraphs parsed from the text of the closing date
ClosingItems == {i \in 1..Len(content) : content[i].text = T_closing}

\* C30: a paragraph without list numbering whose text is 'Section 5.3', two
\* blanks, 'Closing Date.', two blanks and body text is stamped with the
\* section_ref '5.3' and the caption 'Closing Date.'.
C30_ClosingDateScenario ==
    \A i \in ClosingItems :
        /\ content[i].section_ref = Some(<<"5", ".", "3">>)
        /\ content[i].caption = Some(ClosingDate)


(***************************************************************************)
(* Two invocations at a time.                                              *)
(***************************************************************************)
\* parse_document run alone on the blocks: the tracker, the counter and the
\* content after the last block
RECURSIVE Alone(_)
Alone(blocks) ==
    IF blocks = <<>>
    THEN [self |-> NewTracker, para_id |-> 0, content |-> <<>>]
    ELSE LET before == Alone(SubSeq(blocks, 1, Len(blocks) - 1))
         IN ParseBlock(before.self, before.para_id, before.content,
                       blocks[Len(blocks)])

\* rebuild_document run alone on the blocks
RebuiltAlone(blocks) ==
    WalkBlocks(blocks, "clean", revised_lookup(ConcurrentRevisions), None)

\* C29: of two invocations whose steps interleave, each has at every step
\* the paragraph counter and the content that parse_document has after the
\* same blocks when run alone, and once its rebuild has saved, its output
\* path holds the container and it has returned the count that
\* rebuild_document gives when run alone on its document.
C29_InterleavingIndependent ==
    \A i \in Invocations :
        /\ runs.inv[i].para_id = Alone(runs.inv[i].blocks).para_id
        /\ runs.inv[i].content = Alone(runs.inv[i].blocks).content
        /\ runs.inv[i].pc = "saved" =>
              /\ runs.fs[OutputPathOf(i)] = File(RebuiltAlone(runs.inv[i].blocks).out)
              /\ runs.inv[i].returned =
                     Some(RebuiltAlone(runs.inv[i].blocks).changes_made)

\* Both invocations have parsed a document with numbered paragraphs and have
\* rebuilt it, the documents differ and the first rebuild has rewritten a
\* paragraph
C29_Witness ==
    /\ \A i \in Invocations :
          /\ runs.inv[i].pc = "saved"
          /\ Len(runs.inv[i].blocks) = MaxConcurrentBlocks
          /\ runs.tracker[TrackerOf(i)].counters # <<>>
    /\ runs.inv[1].returned = Some(1)
    /\ runs.inv[1].blocks # runs.inv[2].blocks


\* The positions of the paragraphs that differ between the original and the
\* container at the path
ChangedAt(path) ==
    {at \in {Positions(files[OriginalPath].blocks)[k] :
                k \in 1..Len(Positions(files[OriginalPath].blocks))} :
        ParagraphAt(files[OriginalPath].blocks, at) # ParagraphAt(files[path].blocks, at)}

\* C31: the revision_count that generate_final_documents returns is the
\* number of paragraphs that differ between the original and the clean
\* output, and between the original and the track changes output.
C31_CountIsParagraphsChanged ==
    final # None /\ LastFinal.returned # None =>
        /\ LastFinal.returned[1].revision_count = Cardinality(ChangedAt(CleanPath))
        /\ LastFinal.returned[1].revision_count = Cardinality(ChangedAt(TrackChangesPath))


(***************************************************************************)
(* Headings, keywords and markers with an indent level.                    *)
(***************************************************************************)
\* The i-th block is a paragraph whose only numbering signal is its heading
\* style
HeadingOnly(i) ==
    /\ content[i].type = "paragraph"
    /\ content[i].style_info.is_heading
    /\ content[i].style_info.numbering = None
    /\ content[i].section_number = None

\* C32: a paragraph whose only numbering signal is a heading style enters
\* the hierarchy as a new node: the hierarchy it is stamped with ends with a
\* node that carries its caption and that the hierarchy before it had not.
C32_HeadingOnlyEntersHierarchy ==
    \A i \in 1..Len(content) :
        HeadingOnly(i) =>
            /\ Stamped(i) # <<>>
            /\ Stamped(i)[Len(Stamped(i))].caption = content[i].caption
            /\ Stamped(i) # Stamped(i - 1)


\* The tracker's hierarchy: its node dicts in order
TrackerHierarchy == HierValue(hierarchy)

\* C33: after any sequence of updates the hierarchy is empty exactly when
\* last_level is -1; otherwise it has at least one and at most last_level + 1
\* nodes and the level of its last node is last_level.
C33_TrackerInvariant ==
    /\ TrackerHierarchy = <<>> <=> last_level = -1
    /\ TrackerHierarchy # <<>> =>
          /\ 1 <= Len(TrackerHierarchy)
          /\ Len(TrackerHierarchy) <= last_level + 1
          /\ TrackerHierarchy[Len(TrackerHierarchy)].level = last_level

\* After updates that went down and came back up: the hierarchy was cut to a
\* level it had nodes below, and holds two nodes
C33_Witness ==
    /\ Len(TrackerHierarchy) = 2
    /\ last_level = 1
    /\ Cardinality({i \in 1..Len(log) : log[i].called}) >= 3

\* After an update at a level the hierarchy had no node above
C33_WitnessOrphan ==
    /\ Len(TrackerHierarchy) = 1
    /\ last_level >= 1


\* The i-th block is a paragraph without list-style level whose marker was
\* matched by a keyword pattern
KeywordMarked(i) ==
    /\ content[i].type = "paragraph"
    /\ content[i].style_info.numbering = None
    /\ content[i].section_number # None
    /\ \/ StartsWith(LowerStr(content[i].section_number[1]), KwArticle)
       \/ StartsWith(LowerStr(content[i].section_number[1]), KwSection)

\* C34: a paragraph without list-style level whose marker is matched by the
\* Article and Section keyword patterns gets level 0, in whatever letter case
\* the keyword is written: its node is the only node of the hierarchy it is
\* stamped with.
C34_KeywordLevelZero ==
    \A i \in 1..Len(content) :
        KeywordMarked(i) =>
            /\ Len(Stamped(i)) = 1
            /\ Stamped(i)[1].level = 0
            /\ Stamped(i)[1].number = content[i].section_number[1]


\* The i-th block is a paragraph with a textual marker and a list-style
\* indent level
MarkedAndIndented(i) ==
    /\ content[i].type = "paragraph"
    /\ content[i].style_info.numbering # None
    /\ content[i].section_number # None

\* C35: a paragraph with both a textual marker and a list-style indent level
\* gets a node of the indent level, not of the level of the marker's format:
\* the hierarchy it is stamped with is the one before it cut to the indent
\* level, then the node with the marker as its label.
C35_IndentLevelWins ==
    \A i \in 1..Len(content) :
        MarkedAndIndented(i) =>
            LET level == content[i].style_info.numbering[1].level
                kept == Min(level, Len(Stamped(i - 1)))
            IN /\ Len(Stamped(i)) = kept + 1
               /\ SubSeq(Stamped(i), 1, kept) = SubSeq(Stamped(i - 1), 1, kept)
               /\ Stamped(i)[kept + 1].level = level
               /\ Stamped(i)[kept + 1].number = content[i].section_number[1]

\* The paragraph '1.2' at indent level 0 after a hierarchy of two nodes: its
\* node is the whole hierarchy
C35_Witness ==
    \E i \in 2..Len(content) :
        /\ MarkedAndIndented(i)
        /\ content[i].section_number = Some(<<"1", ".", "2">>)
        /\ content[i].style_info.numbering[1].level = 0
        /\ Len(Stamped(i - 1)) = 2
        /\ Len(Stamped(i)) = 1
        /\ Stamped(i)[1].level = 0


\* The positions of the paragraphs of the exported document
FinalPositions ==
    {Positions(files[OriginalPath].blocks)[k] :
        k \in 1..Len(Positions(files[OriginalPath].blocks))}

\* The text of the paragraph at a position of the container at a path, with
\* the insertions taken and the deletions dropped
AcceptedText(path, at) == TextOf(ParagraphAt(files[path].blocks, at), {"r", "ins"})

\* The positions of the paragraphs that a walk rewrote
RewrittenIn(walk) == {walk[k].at : k \in {j \in 1..Len(walk) : walk[j].rewritten}}

\* C36: after an export, each paragraph of the track changes output reads,
\* with all changes accepted, as the same paragraph of the clean output, and
\* a paragraph is rewritten for the one exactly when it is rewritten for the
\* other.
C36_ModesAgree ==
    final # None /\ LastFinal.returned # None =>
        \A at \in FinalPositions :
            /\ AcceptedText(TrackChangesPath, at) = AcceptedText(CleanPath, at)
            /\ at \in RewrittenIn(LastFinal.walk.track)
                  <=> at \in RewrittenIn(LastFinal.walk.clean)


\* C37: when the markup has raised after it duplicated the original to the
\* track changes path and generate_final_documents returns, that path holds
\* a complete clean rebuild: a readable container whose paragraphs are those
\* of the clean output.
C37_FallbackIsCleanRebuild ==
    final # None /\ LastFinal.returned # None /\ LastFinal.fallback = Some("raised") =>
        /\ files[TrackChangesPath].state = "ok"
        /\ files[TrackChangesPath] = files[CleanPath]
        /\ \A at \in FinalPositions :
              AcceptedText(TrackChangesPath, at) = AcceptedText(CleanPath, at)

\* The markup raised with the track changes path partly written, and the
\* export returned with a paragraph rewritten
C37_Witness ==
    /\ final # None
    /\ LastFinal.returned # None
    /\ LastFinal.fallback = Some("raised")
    /\ LastFinal.call.fault.tracked = "save_partial"
    /\ ChangedAt(TrackChangesPath) # {}


(***************************************************************************)
(* Re-application.                                                         *)
(***************************************************************************)
\* The container at out1 is what a clean rebuild of the original with the
\* session's revisions writes, and the last call was a clean rebuild of it,
\* with the same revisions, that returned
Reapplied ==
    /\ rebuilt # None
    /\ LastCall.mode = "clean"
    /\ LastCall.original_path = "out1"
    /\ LastCall.output_path = "out2"
    /\ rebuilt[1].returned # None
    /\ files["out1"] =
          rebuild_document(files, OriginalPath, revisions, "out1", "none").files["out1"]

\* C38: a clean rebuild of the output of a clean rebuild, with the same
\* revision set, returns 0 and leaves the text of every paragraph as it was.
C38_ReapplicationNoOp ==
    Reapplied =>
        /\ rebuilt[1].returned = Some(0)
        /\ \A k \in 1..Len(Positions(files["out1"].blocks)) :
              Text(ParagraphAt(files["out2"].blocks, Positions(files["out1"].blocks)[k]))
                = Text(ParagraphAt(files["out1"].blocks, Positions(files["out1"].blocks)[k]))


(***************************************************************************)
(* The revision ids of a tracked output.                                   *)
(***************************************************************************)
\* The revision marks of the container at a path, each with the position of
\* its paragraph and its place among the paragraph's children
MarksOf(path) ==
    UNION { { [at |-> Positions(files[path].blocks)[k], child |-> c,
               id |-> ParagraphAt(files[path].blocks,
                                  Positions(files[path].blocks)[k]).children[c].mark[1].id] :
                c \in {j \in 1..Len(ParagraphAt(files[path].blocks,
                                                Positions(files[path].blocks)[k]).children) :
                         ParagraphAt(files[path].blocks,
                                     Positions(files[path].blocks)[k]).children[j].mark # None} } :
            k \in 1..Len(Positions(files[path].blocks)) }

\* C40: in the output of a tracked rebuild no two insertion or deletion
\* marks carry the same revision id.
C40_DistinctRevisionIds ==
    rebuilt # None /\ LastCall.mode = "tracked" /\ raised = None =>
        \A m, n \in MarksOf(LastCall.output_path) : m.id = n.id => m = n


(***************************************************************************)
(* The revisions of a session and its export.                              *)
(***************************************************************************)
\* The last call of a route is a finalize that called
\* generate_final_documents
Exported ==
    /\ calls # <<>>
    /\ calls[Len(calls)].op = "finalize"
    /\ calls[Len(calls)].status # 400

\* The keys of the walk of a rebuild whose paragraph was rewritten
RewrittenKeys(walk) == {walk[k].key : k \in {j \in 1..Len(walk) : walk[j].rewritten}}

\* The paragraphs whose revision the last export applied: those it rewrote
\* in one of the two documents and those it lists in revision_details
AppliedKeys ==
    RewrittenKeys(LastFinal.walk.track) \cup RewrittenKeys(LastFinal.walk.clean)
    \cup (IF LastFinal.returned = None THEN {}
          ELSE {LastFinal.returned[1].revision_details[k].para_id :
                  k \in 1..Len(LastFinal.returned[1].revision_details)})

\* Before call n, accept has stored its mark for the key, and since then no
\* revise has stored a revision for the key and no reject has deleted it
AcceptStands(key, n) ==
    \E a \in 1..(n - 1) :
        /\ calls[a] = Response("accept", key, 200)
        /\ \A j \in (a + 1)..(n - 1) :
            /\ calls[j] # Response("revise", key, 200)
            /\ calls[j] # Response("reject", key, 200)

\* C39: finalize applies the revision of a paragraph only if accept was
\* called for the paragraph after its most recent revise and no reject
\* followed; after a revise the revision of the paragraph is an unaccepted
\* one, whatever it was before; after a reject the paragraph has no revision.
C39_RevisionLifecycle ==
    /\ Exported => \A key \in AppliedKeys : AcceptStands(key, Len(calls))
    /\ \A key \in SessionIds :
        /\ calls # <<>> /\ calls[Len(calls)] = Response("revise", key, 200) =>
               key \in DOMAIN revisions /\ ~revisions[key].accepted
        /\ calls # <<>> /\ calls[Len(calls)] = Response("reject", key, 200) =>
               key \notin DOMAIN revisions

\* A session of two paragraphs: the revision of the first is accepted, the
\* second is revised and not accepted, and finalize applies the first alone
C39_Witness ==
    /\ Exported
    /\ calls[Len(calls)].status = 200
    /\ AppliedKeys = {P_1}
    /\ P_2 \in DOMAIN revisions
    /\ ~revisions[P_2].accepted
    /\ \E k \in 1..Len(calls) : calls[k] = Response("revise", P_2, 200)

\* A session where a revise follows the accept: the second revise for the
\* first paragraph stores an unaccepted revision over the accepted one
C39_WitnessReplaced ==
    /\ Len(calls) = 3
    /\ calls[1] = Response("revise", P_1, 200)
    /\ calls[2] = Response("accept", P_1, 200)
    /\ calls[3] = Response("revise", P_1, 200)
    /\ ~revisions[P_1].accepted

====
